---- MODULE Spec2Model ----
(***************************************************************************)
(* State-machine model of the unified access gateway:                      *)
(*   - main():            startup, fatal exits, wait for signal            *)
(*   - core.Server:       Start, GracefulShutdown, /health and /ready      *)
(*   - core.Listener:     Start, Stop, acceptLoop, handleConn              *)
(*   - core.SniffConn:    Peek-based protocol sniffing                     *)
(*   - tcp.Handler / http.Handler: the life of one connection task         *)
(***************************************************************************)
EXTENDS Integers, Sequences, FiniteSets, TLC

\* ---------------------------------------------------------------------
\* Bounds of the model
\* ---------------------------------------------------------------------
MaxConns == 1        \* connections the accept loop may accept in one run
MaxTimeout == 11     \* largest lifecycle.shutdown_timeout, in seconds
MaxTail == 2         \* bytes a client stream carries after its 4-byte head
MaxCalls == 3        \* connections that reach connection admission
MaxTicks == 2        \* ticks of the clock in an admission run
MaxReloads == 1      \* policy reloads in an admission run
MaxAdminOps == 1     \* key rewrites by admin tools in a reload run
MaxRequests == 2     \* requests a client sends on one HTTP connection
MaxBytes == 2        \* bytes a TCP session relays in each direction

\* ---------------------------------------------------------------------
\* Program constants
\* ---------------------------------------------------------------------
K8sWaitDefault == 5      \* k8sWaitTime := 5 * time.Second
K8sWaitShort == 2        \* k8sWaitTime = 2 * time.Second
ShortTimeoutLimit == 10  \* if timeout < 10*time.Second
PeekSize == 5            \* s.r.Peek(5)
MinSniffLen == 2         \* if len(bytes) < 2
TLSHandshake == 22       \* bytes[0] == 0x16
BufSize == 4096          \* bufio.NewReader: defaultBufSize
DefaultRps == 100        \* DefaultSecurityState: RequestsPerSecond
DefaultBurst == 200      \* DefaultSecurityState: Burst
UpdatesCap == 10         \* make(chan ConfigUpdate, 10)
TicksPerSecond == 2      \* resolution of the clock

ProtocolUnknown == "Unknown"
ProtocolHTTP == "HTTP"
ProtocolTCP == "TCP"
ProtocolTLS == "TLS"

\* byte strings the sniffer and the protocol description name
StrGET == <<71, 69, 84, 32>>      \* "GET "
StrPOST == <<80, 79, 83, 84>>     \* "POST"
StrHTTP == <<72, 84, 84, 80>>     \* "HTTP"
StrPUT == <<80, 85, 84, 32>>      \* "PUT "
StrDELE == <<68, 69, 76, 69>>     \* "DELE"
StrHEAD == <<72, 69, 65, 68>>     \* "HEAD"

VARIABLES
    env,       \* infrastructure config and content of the config store
    cfg,       \* *config.Config after business config has been applied
    pc,        \* position of the main goroutine
    draining,  \* Server.draining (atomic int32)
    waited,    \* seconds GracefulShutdown has spent in time.Sleep
    gsLog,     \* steps GracefulShutdown has executed, in order
    lst,       \* Listener.listener: "nil", "open", "closed"
    lsPc,      \* goroutine running Listener.Start: "none","spawned","ok","failed"
    al,        \* acceptLoop goroutine
    alWarned,  \* acceptLoop has logged a temporary Accept error
    ms,        \* metrics/health server goroutine
    wg,        \* Server.wg counter
    store,     \* RedisStore client: "nil", "open", "closed"
    conn,      \* connection tasks
    probe,     \* last answer of the /ready and /health handlers
    sn,        \* one sniffed connection followed in detail
    secStore,  \* security keys of the config store
    mgr,       \* security.Manager: flags, sets, limiter
    hints,     \* messages waiting in RedisStore.updates
    clock,     \* monotonic time, in ticks
    calls,     \* connections that went through handleConn's admission
    audit,     \* lines written to the audit sink
    reload,    \* the last load of the security policy, before and after
    last,      \* details of the last connection admission
    swap,      \* a reload and an admission decision, field by field
    cx,        \* one admitted connection inside its handler
    sockPairMap, \* the kernel's sock_pair_map
    kern,      \* kernel acceleration: its setup and the client's byte stream
    sub,       \* the store's subscription listener and the update consumer
    adm,       \* one request inside the admin API
    gauge      \* gateway_active_connections, by protocol

polVars == <<secStore, mgr, hints, clock, calls, audit, reload, last>>

dpVars == <<swap, cx, sockPairMap>>

extVars == <<kern, sub, adm, gauge>>

vars == <<env, cfg, pc, draining, waited, gsLog, lst, lsPc, al, alWarned,
          ms, wg, store, conn, probe, sn, polVars, dpVars, extVars>>

Conns == 1..MaxConns
Timeouts == 0..MaxTimeout

Min(a, b) == IF a < b THEN a ELSE b
Max(a, b) == IF a > b THEN a ELSE b

\* ---------------------------------------------------------------------
\* core.SniffConn
\* ---------------------------------------------------------------------
\* bufio.Reader.Peek(n) on a socket that delivers `avail` bytes of `stream`
\* and then ends with `end` ("EOF": peer closed, "timeout": read deadline).
Peek(stream, avail, end) ==
    LET n == Min(PeekSize, Min(avail, Len(stream)))
    IN  [bytes |-> SubSeq(stream, 1, n),
         err   |-> IF n = PeekSize THEN "nil" ELSE end]

\* SniffConn.Sniff on the result of Peek(5)
Sniff(bytes, err) ==
    IF err # "nil" /\ err # "EOF" THEN ProtocolUnknown
    ELSE IF Len(bytes) < MinSniffLen THEN ProtocolUnknown
    ELSE IF bytes = StrGET \/ bytes = StrPOST \/ bytes = StrHTTP THEN ProtocolHTTP
    ELSE IF bytes[1] = TLSHandshake THEN ProtocolTLS
    ELSE ProtocolTCP

\* a switch whose default branch hands the connection to the TCP handler
Dispatch_DefaultTCP(proto, httpHandler, tcpHandler) ==
    CASE proto = ProtocolHTTP -> IF httpHandler THEN "http" ELSE "closed"
      [] OTHER -> IF tcpHandler THEN "tcp" ELSE "closed"

\* the switch of Listener.handleConn: which handler takes the connection
Dispatch(proto, httpHandler, tcpHandler) ==
    CASE proto = ProtocolHTTP -> IF httpHandler THEN "http" ELSE "closed"
      [] proto = ProtocolTCP  -> IF tcpHandler THEN "tcp" ELSE "closed"
      [] OTHER -> "closed"

\* ---------------------------------------------------------------------
\* config.RedisStore: security keys; security.Manager
\* ---------------------------------------------------------------------
SecKeys == {"auth:config", "auth:allowed_subjects", "rate_limit",
            "waf:config", "waf:blocked_ips", "waf:blocked_patterns"}

\* which reads of one LoadSecurityConfig call return an error
FailSets == {{}, SecKeys, {"rate_limit"}, {"waf:blocked_ips"}}

ClientIPs == {"10.0.0.1", "10.0.0.2"}
StoreIPs == {"10.0.0.1"}
StoreSubjects == {"CN=game-client"}
StorePatterns == {"(?i)(union.*select)"}
StoreRps == {0, 1}                     \* rps values of the rate_limit hash
StoreBursts == {1, 2}                  \* burst values of the rate_limit hash
HashFlags == {"absent", "on", "off"}   \* hash missing, enabled=true, =false

RateAbsent == [present |-> FALSE, enabled |-> FALSE, rps |-> 0, burst |-> 0]
RateSettings ==
    {RateAbsent} \cup
    [present : {TRUE}, enabled : BOOLEAN, rps : StoreRps, burst : StoreBursts]

SecStores ==
    [authCfg : HashFlags, subjects : SUBSET StoreSubjects,
     rate : RateSettings, wafCfg : HashFlags,
     ips : SUBSET StoreIPs, patterns : SUBSET StorePatterns]

EmptySecStore ==
    [authCfg |-> "absent", subjects |-> {}, rate |-> RateAbsent,
     wafCfg |-> "absent", ips |-> {}, patterns |-> {}]

\* config.DefaultSecurityState()
DefaultSecurityState ==
    [authEnabled |-> FALSE, allowedSubjects |-> {},
     rlEnabled |-> TRUE, rps |-> DefaultRps, burst |-> DefaultBurst,
     wafEnabled |-> FALSE, blockedIPs |-> {}, blockedPatterns |-> {}]

\* RedisStore.LoadSecurityConfig: starts from the defaults and overwrites a
\* section only when its read succeeded (and, for a hash, returned fields);
\* the returned error is always nil.
LoadSecurityConfig(st, failed) ==
    LET d == DefaultSecurityState
        authRead == "auth:config" \notin failed /\ st.authCfg # "absent"
        rateRead == "rate_limit" \notin failed /\ st.rate.present
        wafRead == "waf:config" \notin failed /\ st.wafCfg # "absent"
    IN  [authEnabled |-> IF authRead THEN st.authCfg = "on"
                         ELSE d.authEnabled,
         allowedSubjects |-> IF "auth:allowed_subjects" \notin failed
                             THEN st.subjects ELSE d.allowedSubjects,
         rlEnabled |-> IF rateRead THEN st.rate.enabled ELSE d.rlEnabled,
         rps |-> IF rateRead THEN st.rate.rps ELSE d.rps,
         burst |-> IF rateRead THEN st.rate.burst ELSE d.burst,
         wafEnabled |-> IF wafRead THEN st.wafCfg = "on" ELSE d.wafEnabled,
         blockedIPs |-> IF "waf:blocked_ips" \notin failed
                        THEN st.ips ELSE d.blockedIPs,
         blockedPatterns |-> IF "waf:blocked_patterns" \notin failed
                             THEN st.patterns ELSE d.blockedPatterns]

\* m.limiter == nil
NoLimiter == [on |-> FALSE, rps |-> 0, burst |-> 0, tokens |-> 0, last |-> 0]

\* rate.NewLimiter(rate.Limit(rps), burst): the bucket starts full. Tokens
\* are counted in units of 1/TicksPerSecond, so that a refill of rps tokens
\* per second is rps units per tick.
NewLimiter(rps, burst, now) ==
    [on |-> TRUE, rps |-> rps, burst |-> burst,
     tokens |-> burst * TicksPerSecond, last |-> now]

\* tokens in the bucket at time `now`: refill since the last event, capped
Advance(lim, now) ==
    Min(lim.burst * TicksPerSecond, lim.tokens + (now - lim.last) * lim.rps)

\* an Allow that lets a call through on any fraction of a token
Allow_AnyToken(lim, now) ==
    LET tokens == Advance(lim, now)
    IN  IF tokens > 0
        THEN [ok |-> TRUE,
              lim |-> [lim EXCEPT !.tokens = Max(0, tokens - TicksPerSecond),
                                  !.last = now]]
        ELSE [ok |-> FALSE, lim |-> lim]

\* limiter.Allow(): one whole token must be there; it is taken on success,
\* and a refused call leaves the limiter as it was
Allow(lim, now) ==
    LET tokens == Advance(lim, now)
    IN  IF tokens >= TicksPerSecond
        THEN [ok |-> TRUE,
              lim |-> [lim EXCEPT !.tokens = tokens - TicksPerSecond,
                                  !.last = now]]
        ELSE [ok |-> FALSE, lim |-> lim]

\* the zero value of security.Manager
NoManager ==
    [authEnabled |-> FALSE, wafEnabled |-> FALSE, auditEnabled |-> FALSE,
     allowedSubjects |-> {}, blockedIPs |-> {}, blockedPatterns |-> {},
     limiter |-> NoLimiter]

\* Manager.DisableRateLimit
DisableRateLimit(m) == [m EXCEPT !.limiter = NoLimiter]

\* Manager.UpdateRateLimit: a new limiter on every call
UpdateRateLimit(m, rps, burst, now) ==
    IF rps <= 0 \/ burst <= 0 THEN DisableRateLimit(m)
    ELSE [m EXCEPT !.limiter = NewLimiter(rps, burst, now)]

\* Manager.UpdateBlockedIPs
UpdateBlockedIPs(m, ips) ==
    [m EXCEPT !.blockedIPs = {ip \in ips : ip # ""}]

\* patterns regexp.Compile rejects: an unclosed group, an unclosed class
InvalidPatterns == {"(union", "sel[ect"}

\* the patterns a list of blocked patterns is drawn from
PatternSamples == {"", "(?i)(union.*select)", "items"} \cup InvalidPatterns

\* regexp.Compile(pattern) returns no error
Compiles(p) == p \notin InvalidPatterns

\* an update that keeps every non-empty pattern, compiled or not
UpdateBlockedPatterns_KeepsInvalid(m, patterns) ==
    [m EXCEPT !.blockedPatterns = {p \in patterns : p # ""}]

\* Manager.UpdateBlockedPatterns: empty patterns are skipped, a pattern
\* that does not compile is logged and skipped, the rest is kept
UpdateBlockedPatterns(m, patterns) ==
    [m EXCEPT !.blockedPatterns = {p \in patterns : p # "" /\ Compiles(p)}]

\* Manager.UpdateAllowedSubjects
UpdateAllowedSubjects(m, subjects) ==
    [m EXCEPT !.allowedSubjects = {x \in subjects : x # ""}]

\* Manager.loadStaticConfig, on the configuration main() has filled in
loadStaticConfig(m, sec, now) ==
    LET m1 == IF sec.authEnabled
              THEN UpdateAllowedSubjects(m, sec.allowedSubjects) ELSE m
        m2 == IF sec.rlEnabled /\ sec.rps > 0
              THEN UpdateRateLimit(m1, sec.rps, sec.burst, now) ELSE m1
    IN  IF sec.wafEnabled
        THEN UpdateBlockedPatterns(UpdateBlockedIPs(m2, sec.blockedIPs),
                                   sec.blockedPatterns)
        ELSE m2

\* the updates Manager.applySnapshot makes, in its order; each one takes
\* the state lock for itself
SnapshotSteps == <<"rate_limit", "blocked_ips", "blocked_patterns",
                   "allowed_subjects">>

\* one update of Manager.applySnapshot
applyStep(m, sec, step, now) ==
    CASE step = "rate_limit" ->
           IF sec.rlEnabled
           THEN IF sec.rps > 0
                THEN UpdateRateLimit(m, sec.rps, sec.burst, now)
                ELSE DisableRateLimit(m)
           ELSE m
      [] step = "blocked_ips" ->
           IF sec.blockedIPs # {}
           THEN UpdateBlockedIPs(m, sec.blockedIPs) ELSE m
      [] step = "blocked_patterns" ->
           IF sec.blockedPatterns # {}
           THEN UpdateBlockedPatterns(m, sec.blockedPatterns) ELSE m
      [] step = "allowed_subjects" ->
           IF sec.allowedSubjects # {}
           THEN UpdateAllowedSubjects(m, sec.allowedSubjects) ELSE m

\* Manager.applySnapshot
applySnapshot(m, sec, now) ==
    LET m1 == applyStep(m, sec, SnapshotSteps[1], now)
        m2 == applyStep(m1, sec, SnapshotSteps[2], now)
        m3 == applyStep(m2, sec, SnapshotSteps[3], now)
    IN  applyStep(m3, sec, SnapshotSteps[4], now)

\* main() step 7 copies the loaded Auth, RateLimit and WAF sections into
\* cfg.Security; security.NewManager then runs loadStaticConfig on them,
\* loads the policy once more and applies it as a snapshot.
NewManager(st, auditEnabled, now) ==
    LET sec == LoadSecurityConfig(st, {})
        m0 == [NoManager EXCEPT !.authEnabled = sec.authEnabled,
                                !.wafEnabled = sec.wafEnabled,
                                !.auditEnabled = auditEnabled]
    IN  applySnapshot(loadStaticConfig(m0, sec, now),
                      LoadSecurityConfig(st, {}), now)

ErrNil == <<>>

\* a CheckConnection that asks the limiter before it looks at the deny list
CheckConnection_LimiterFirst(m, ip, now) ==
    LET a == IF m.limiter.on THEN Allow(m.limiter, now)
             ELSE [ok |-> TRUE, lim |-> m.limiter]
    IN  IF ~a.ok
        THEN [err |-> <<"rate limit exceeded">>, m |-> m]
        ELSE IF m.wafEnabled /\ ip \in m.blockedIPs
        THEN [err |-> <<"blocked IP", ip>>,
              m |-> [m EXCEPT !.limiter = a.lim]]
        ELSE [err |-> ErrNil, m |-> [m EXCEPT !.limiter = a.lim]]

\* Manager.CheckConnection on the remote address of an accepted connection
CheckConnection(m, ip, now) ==
    IF m.wafEnabled /\ ip \in m.blockedIPs
    THEN [err |-> <<"blocked IP", ip>>, m |-> m]
    ELSE IF m.limiter.on
    THEN LET a == Allow(m.limiter, now)
         IN  IF ~a.ok
             THEN [err |-> <<"rate limit exceeded">>, m |-> m]
             ELSE [err |-> ErrNil, m |-> [m EXCEPT !.limiter = a.lim]]
    ELSE [err |-> ErrNil, m |-> m]

\* an AuditTCP that writes whether or not audit logging is enabled
AuditTCP_IgnoresFlag(m, id, backend, allowed, detail, written) ==
    IF ~written THEN <<>>
    ELSE <<[protocol |-> "tcp", conn |-> id, backend |-> backend,
            action |-> IF allowed THEN "allow" ELSE "deny",
            detail |-> detail]>>

\* Manager.AuditTCP: the lines it adds to the sink; `written` is whether the
\* sink accepted the write (writeAudit only warns when it did not)
AuditTCP(m, id, backend, allowed, detail, written) ==
    IF ~m.auditEnabled THEN <<>>
    ELSE IF ~written THEN <<>>
    ELSE <<[protocol |-> "tcp", conn |-> id, backend |-> backend,
            action |-> IF allowed THEN "allow" ELSE "deny",
            detail |-> detail]>>

NoCall == [id |-> 0]

\* cfg.Security.Auth.HeaderSubject: "X-Client-Subject" by default, and
\* LoadSecurityConfig replaces it only by a non-empty name
HeaderSubject == "X-Client-Subject"

Subjects == {"CN=game-client", "CN=intruder"}

\* r.TLS.PeerCertificates as the subjects of the certificates: none on a
\* connection without TLS, and a certificate may carry an empty subject
PeerCerts == {<<>>, <<"">>} \cup {<<x>> : x \in Subjects}

\* r.Header.Get(HeaderSubject): "" when the header is absent
HeaderValues == {""} \cup Subjects

\* r.URL.Path and r.URL.RawQuery, as sequences of words
Paths == {<<"/api/", "items">>, <<"/api/", "union">>}
Queries == {<<>>, <<"q=", "UNION", "+", "SELECT">>, <<"id=", "select">>}

\* what follows the exchange: the connection is kept alive, the request
\* carries Connection: close, or it is an upgrade the upstream accepts
Modes == {"keepalive", "close", "upgrade"}

Requests ==
    [certs : PeerCerts, header : HeaderValues, path : Paths,
     rawQuery : Queries, mode : Modes]

NoRequest ==
    [certs |-> <<>>, header |-> "", path |-> <<>>, rawQuery |-> <<>>,
     mode |-> "close"]

\* an AuthorizeHTTP that prefers the header to the certificate
AuthorizeHTTP_HeaderFirst(m, req) ==
    IF ~m.authEnabled THEN ErrNil
    ELSE LET fromCert == IF Len(req.certs) > 0 THEN req.certs[1] ELSE ""
             subject == IF req.header # "" THEN req.header ELSE fromCert
         IN  IF subject = ""
             THEN <<"client certificate subject missing">>
             ELSE IF m.allowedSubjects = {} THEN ErrNil
             ELSE IF subject \notin m.allowedSubjects
             THEN <<"subject not allowed", subject>>
             ELSE ErrNil

\* Manager.AuthorizeHTTP
AuthorizeHTTP(m, req) ==
    IF ~m.authEnabled THEN ErrNil
    ELSE LET fromCert == IF Len(req.certs) > 0 THEN req.certs[1] ELSE ""
             subject == IF fromCert = "" /\ HeaderSubject # ""
                        THEN req.header ELSE fromCert
         IN  IF subject = ""
             THEN <<"client certificate subject missing">>
             ELSE IF m.allowedSubjects = {} THEN ErrNil
             ELSE IF subject \notin m.allowedSubjects
             THEN <<"subject not allowed", subject>>
             ELSE ErrNil

\* the payload ApplyWAF matches against: the path, and "?" and the raw
\* query when there is one
Payload(req) ==
    IF req.rawQuery = <<>> THEN req.path
    ELSE req.path \o <<"?">> \o req.rawQuery

\* case folding of the (?i) flag
Lower(w) ==
    CASE w = "UNION" -> "union"
      [] w = "SELECT" -> "select"
      [] OTHER -> w

\* regexp.MatchString: (?i)(union.*select) finds "union" and, anywhere
\* after it, "select", in any case; a literal pattern finds itself
MatchString(p, payload) ==
    IF p = "(?i)(union.*select)"
    THEN \E i \in 1..Len(payload) : \E j \in (i + 1)..Len(payload) :
           /\ Lower(payload[i]) = "union"
           /\ Lower(payload[j]) = "select"
    ELSE \E i \in 1..Len(payload) : payload[i] = p

\* Manager.ApplyWAF on a request from `ip`
ApplyWAF(m, ip, req) ==
    IF ~m.wafEnabled THEN ErrNil
    ELSE IF ip # "" /\ ip \in m.blockedIPs THEN <<"blocked IP", ip>>
    ELSE LET hits == {p \in m.blockedPatterns : MatchString(p, Payload(req))}
         IN  IF hits = {} THEN ErrNil
             ELSE <<"blocked by pattern", CHOOSE p \in hits : TRUE>>

\* an AuditHTTP that writes whether or not audit logging is enabled
AuditHTTP_IgnoresFlag(m, id, req, status, err, written) ==
    IF ~written THEN <<>>
    ELSE <<[protocol |-> "http", conn |-> id, path |-> req.path,
            status |-> status,
            action |-> IF err # ErrNil THEN "deny" ELSE "allow",
            detail |-> err]>>

\* Manager.AuditHTTP: the lines it adds to the sink
AuditHTTP(m, id, req, status, err, written) ==
    IF ~m.auditEnabled THEN <<>>
    ELSE IF ~written THEN <<>>
    ELSE <<[protocol |-> "http", conn |-> id, path |-> req.path,
            status |-> status,
            action |-> IF err # ErrNil THEN "deny" ELSE "allow",
            detail |-> err]>>

SwapIdle == [on |-> FALSE]

CxIdle == [phase |-> "off"]

KernIdle == [phase |-> "off"]
SubIdle == [phase |-> "off"]
AdmIdle == [phase |-> "off"]

\* activeConnections before any handler has run
GaugeZero == [http |-> 0, tcp |-> 0]

\* the parts of the state a run does not follow
ExtIdle ==
    /\ kern = KernIdle
    /\ sub = SubIdle
    /\ adm = AdmIdle
    /\ gauge = GaugeZero

NoReload == [n |-> 0, store |-> EmptySecStore, failed |-> {},
             before |-> NoManager, after |-> NoManager]

\* ---------------------------------------------------------------------
\* main(): startup
\* ---------------------------------------------------------------------
BusinessFields == {"server.listen_addr", "backends.http.target_url",
                   "backends.tcp.target_addr"}

\* config.NewRedisStore: Ping fails when the store is unreachable
NewRedisStore(e) == IF e.reachable THEN "open" ELSE "err"

\* RedisStore.LoadBusinessConfig: Exists, HGetAll, then one assignment per
\* field that is present and non-empty; absent fields keep their zero value.
LoadBusinessConfig(e, timeout) ==
    IF ~e.reachable THEN [err |-> "failed to check business config"]
    ELSE IF ~e.keyExists THEN [err |-> "business config not found in redis"]
    ELSE [err |-> "nil",
          listenAddr |-> "server.listen_addr" \in e.hash,
          httpURL    |-> "backends.http.target_url" \in e.hash,
          tcpAddr    |-> "backends.tcp.target_addr" \in e.hash,
          shutdownTimeout |-> timeout]

\* config.LoadConfig(): business part empty, infrastructure part from env
LoadConfig(e) ==
    [listenAddr |-> FALSE, httpURL |-> FALSE, tcpAddr |-> FALSE,
     shutdownTimeout |-> 0,
     metricsEnabled |-> e.metricsEnabled, redisEnabled |-> e.redisEnabled]

\* httpproxy.NewHandler / tcpproxy.NewHandler return nil without an upstream
HttpHandlerPresent == cfg.httpURL
TcpHandlerPresent == cfg.tcpAddr

Alive == pc \notin {"init", "exit0", "exit1", "crash"}

IdleConn == [st |-> "free", acceptedWhen |-> "never", drainRelay |-> FALSE]
NoProbe == [served |-> FALSE]
SnIdle == [phase |-> "off"]

EnvSet ==
    {e \in [redisEnabled : BOOLEAN, reachable : BOOLEAN, keyExists : BOOLEAN,
            hash : SUBSET BusinessFields, metricsEnabled : BOOLEAN] :
        /\ (~e.keyExists => e.hash = {})
        /\ (~e.reachable => ~e.keyExists)
        /\ (~e.redisEnabled => ~e.reachable)}

Init ==
    /\ env \in EnvSet
    /\ cfg = LoadConfig(env)
    /\ pc = "init"
    /\ draining = 0
    /\ waited = 0
    /\ gsLog = <<>>
    /\ lst = "nil"
    /\ lsPc = "none"
    /\ al = "none"
    /\ alWarned = FALSE
    /\ ms = "none"
    /\ wg = 0
    /\ store = "nil"
    /\ conn = [c \in Conns |-> IdleConn]
    /\ probe = NoProbe
    /\ sn = SnIdle
    /\ secStore = EmptySecStore
    /\ mgr = NoManager
    /\ hints = 0
    /\ clock = 0
    /\ calls = <<>>
    /\ audit = <<>>
    /\ reload = NoReload
    /\ last = NoCall
    /\ swap = SwapIdle
    /\ cx = CxIdle
    /\ sockPairMap = {}
    /\ ExtIdle

\* main(), steps 5 to 7: connect to the store and load the business config;
\* every failure is os.Exit(1).
MainLoadConfig ==
    /\ pc = "init"
    /\ IF ~cfg.redisEnabled
       THEN /\ pc' = "exit1"
            /\ UNCHANGED <<cfg, store>>
       ELSE IF NewRedisStore(env) = "err"
       THEN /\ pc' = "exit1"
            /\ UNCHANGED <<cfg, store>>
       ELSE \E t \in Timeouts :
            LET b == LoadBusinessConfig(env, t) IN
            IF b.err # "nil"
            THEN /\ pc' = "exit1"
                 /\ store' = "open"
                 /\ UNCHANGED cfg
            ELSE /\ cfg' = [cfg EXCEPT !.listenAddr = b.listenAddr,
                                       !.httpURL = b.httpURL,
                                       !.tcpAddr = b.tcpAddr,
                                       !.shutdownTimeout = b.shutdownTimeout]
                 /\ store' = "open"
                 /\ pc' = "loaded"
    /\ UNCHANGED <<extVars, dpVars, polVars, env, draining, waited, gsLog, lst, lsPc, al, alWarned,
                   ms, wg, conn, probe, sn>>

\* main() steps 8 and 9: core.NewServer and Server.Start, which spawns the
\* metrics goroutine (if enabled) and the goroutine running Listener.Start.
ServerStart ==
    /\ pc = "loaded"
    /\ ms' = IF cfg.metricsEnabled THEN "spawned" ELSE "none"
    /\ lsPc' = "spawned"
    /\ wg' = (IF cfg.metricsEnabled THEN 1 ELSE 0) + 1
    /\ pc' = "serving"
    /\ UNCHANGED <<extVars, dpVars, polVars, env, cfg, draining, waited, gsLog, lst, al, alWarned,
                   store, conn, probe, sn>>

\* ---------------------------------------------------------------------
\* core.Server: metrics/health endpoint
\* ---------------------------------------------------------------------
\* Server.healthHandler
healthHandler == [code |-> 200, body |-> "OK"]

\* readyHandler with the two checks in the opposite order
readyHandler_StoreFirst(flag, redisEnabled, storeNonNil, healthy) ==
    IF redisEnabled /\ storeNonNil /\ ~healthy
    THEN [code |-> 503, body |-> "Redis Unavailable"]
    ELSE IF flag = 1 THEN [code |-> 503, body |-> "Draining"]
    ELSE [code |-> 200, body |-> "Ready"]

\* Server.readyHandler; healthy is the outcome of RedisStore.CheckHealth
readyHandler(flag, redisEnabled, storeNonNil, healthy) ==
    IF flag = 1 THEN [code |-> 503, body |-> "Draining"]
    ELSE IF redisEnabled /\ storeNonNil /\ ~healthy
         THEN [code |-> 503, body |-> "Redis Unavailable"]
    ELSE [code |-> 200, body |-> "Ready"]

\* the metrics goroutine of Server.Start: ListenAndServe binds or fails
MetricsListen ==
    /\ Alive
    /\ ms = "spawned"
    /\ \E ok \in BOOLEAN :
         IF ok THEN ms' = "serving" /\ wg' = wg
         ELSE ms' = "failed" /\ wg' = wg - 1
    /\ UNCHANGED <<extVars, dpVars, polVars, env, cfg, pc, draining, waited, gsLog, lst, lsPc, al,
                   alWarned, store, conn, probe, sn>>

\* ListenAndServe returns ErrServerClosed after Shutdown; deferred wg.Done
MetricsReturn ==
    /\ Alive
    /\ ms = "closing"
    /\ ms' = "stopped"
    /\ wg' = wg - 1
    /\ UNCHANGED <<extVars, dpVars, polVars, env, cfg, pc, draining, waited, gsLog, lst, lsPc, al,
                   alWarned, store, conn, probe, sn>>

\* one GET /ready and one GET /health answered by the metrics server
Probe ==
    /\ Alive
    /\ ms = "serving"
    /\ \E healthy \in BOOLEAN :
         probe' = [served |-> TRUE, healthy |-> healthy, flag |-> draining,
                   ready |-> readyHandler(draining, cfg.redisEnabled,
                                          store # "nil", healthy),
                   health |-> healthHandler]
    /\ UNCHANGED <<extVars, dpVars, polVars, env, cfg, pc, draining, waited, gsLog, lst, lsPc, al,
                   alWarned, ms, wg, store, conn, sn>>

\* ---------------------------------------------------------------------
\* core.Listener
\* ---------------------------------------------------------------------
\* Listener.Start in its goroutine: handler check, address check, net.Listen,
\* go acceptLoop; then the goroutine of Server.Start runs wg.Done.
ListenerStart ==
    /\ Alive
    /\ lsPc = "spawned"
    /\ \E bindOK \in BOOLEAN :
         IF ~HttpHandlerPresent /\ ~TcpHandlerPresent
         THEN lsPc' = "failed" /\ UNCHANGED <<lst, al>>
         ELSE IF ~cfg.listenAddr
         THEN lsPc' = "failed" /\ UNCHANGED <<lst, al>>
         ELSE IF ~bindOK
         THEN lsPc' = "failed" /\ UNCHANGED <<lst, al>>
         ELSE lsPc' = "ok" /\ lst' = "open" /\ al' = "running"
    /\ wg' = wg - 1
    /\ UNCHANGED <<extVars, dpVars, polVars, env, cfg, pc, draining, waited, gsLog, alWarned, ms,
                   store, conn, probe, sn>>

FreeConns == {c \in Conns : conn[c].st = "free"}

\* when a connection was accepted, relative to the shutdown sequence
AcceptPhase ==
    IF lst = "closed" THEN "stopped"
    ELSE IF draining = 1 THEN "draining"
    ELSE "running"

\* an accept loop that keeps handing out connections after Listener.Stop
AcceptConn_IgnoresClose ==
    /\ Alive
    /\ al = "running"
    /\ lst # "nil"
    /\ FreeConns # {}
    /\ LET c == CHOOSE x \in FreeConns : \A y \in FreeConns : x <= y
       IN  conn' = [conn EXCEPT ![c].st = "spawned",
                                ![c].acceptedWhen = AcceptPhase]
    /\ UNCHANGED <<extVars, dpVars, polVars, env, cfg, pc, draining, waited, gsLog, lst, lsPc,
                   al, alWarned, ms, wg, store, probe, sn>>

\* acceptLoop: Accept returns a connection; go l.handleConn(conn)
AcceptConn ==
    /\ Alive
    /\ al = "running"
    /\ lst = "open"
    /\ FreeConns # {}
    /\ LET c == CHOOSE x \in FreeConns : \A y \in FreeConns : x <= y
       IN  conn' = [conn EXCEPT ![c].st = "spawned",
                                ![c].acceptedWhen = AcceptPhase]
    /\ UNCHANGED <<extVars, dpVars, polVars, env, cfg, pc, draining, waited, gsLog, lst, lsPc,
                   al, alWarned, ms, wg, store, probe, sn>>

\* acceptLoop: Accept returns a temporary net.Error; Warnf and continue
AcceptTemporaryError ==
    /\ Alive
    /\ al = "running"
    /\ lst = "open"
    /\ alWarned' = TRUE
    /\ UNCHANGED <<extVars, dpVars, polVars, env, cfg, pc, draining, waited, gsLog, lst, lsPc, al,
                   ms, wg, store, conn, probe, sn>>

\* acceptLoop: any other Accept error; Errorf and return
AcceptPermanentError ==
    /\ Alive
    /\ al = "running"
    /\ lst = "open"
    /\ al' = "exited_error"
    /\ UNCHANGED <<extVars, dpVars, polVars, env, cfg, pc, draining, waited, gsLog, lst, lsPc,
                   alWarned, ms, wg, store, conn, probe, sn>>

\* acceptLoop: "use of closed network connection"; Infof and return
AcceptClosedError ==
    /\ Alive
    /\ al = "running"
    /\ lst = "closed"
    /\ al' = "exited_closed"
    /\ UNCHANGED <<extVars, dpVars, polVars, env, cfg, pc, draining, waited, gsLog, lst, lsPc,
                   alWarned, ms, wg, store, conn, probe, sn>>

\* ---------------------------------------------------------------------
\* client byte streams
\* ---------------------------------------------------------------------
StrTLSHello == <<22, 3, 1, 0>>     \* TLS handshake record header
StrBinary == <<1, 2, 3, 4>>        \* a game-protocol frame
StrLowerGet == <<103, 101, 116, 32>> \* "get "
Heads == {StrGET, StrPOST, StrHTTP, StrPUT, StrDELE, StrHEAD,
          StrTLSHello, StrBinary, StrLowerGet}
TailBytes == {47, 0}               \* "/" and NUL

RECURSIVE SeqsUpTo(_, _)
SeqsUpTo(S, n) ==
    IF n = 0 THEN {<<>>}
    ELSE LET shorter == SeqsUpTo(S, n - 1)
         IN  shorter \cup {Append(t, b) : t \in shorter, b \in S}

Streams == {h \o t : h \in Heads, t \in SeqsUpTo(TailBytes, MaxTail)}
Ends == {"EOF", "timeout"}

\* what the peek of handleConn may see on an accepted connection
SamplePeeks ==
    {Peek(h \o <<47>>, a, e) : h \in Heads, a \in {0, 1, 4, 5}, e \in Ends}

\* ---------------------------------------------------------------------
\* connection tasks: Listener.handleConn, http.Handler, tcp.Handler
\* ---------------------------------------------------------------------
\* handleConn up to the dispatch: CheckConnection (deny closes the
\* connection), Sniff, then the handler chosen by the switch.
HandleConn(c) ==
    /\ Alive
    /\ conn[c].st = "spawned"
    /\ \E deny \in BOOLEAN,
          d \in {Dispatch(Sniff(pk.bytes, pk.err),
                          HttpHandlerPresent, TcpHandlerPresent) :
                    pk \in SamplePeeks} :
         conn' = [conn EXCEPT ![c].st =
                    IF deny THEN "closed"
                    ELSE IF d = "http" THEN "http"
                    ELSE IF d = "tcp" THEN "dial"
                    ELSE "closed"]
    /\ UNCHANGED <<extVars, dpVars, polVars, env, cfg, pc, draining, waited, gsLog, lst, lsPc,
                   al, alWarned, ms, wg, store, probe, sn>>

\* http.Handler.ServeConn: the exchange served by net/http ends; a panic
\* inside the handler is recovered by net/http, which closes the connection.
HTTPExchangeEnd(c) ==
    /\ Alive
    /\ conn[c].st = "http"
    /\ conn' = [conn EXCEPT ![c].st = "closed"]
    /\ UNCHANGED <<extVars, dpVars, polVars, env, cfg, pc, draining, waited, gsLog, lst, lsPc,
                   al, alWarned, ms, wg, store, probe, sn>>

\* tcp.Handler.Handle: net.DialTimeout to the upstream
TCPDial(c) ==
    /\ Alive
    /\ conn[c].st = "dial"
    /\ \E ok \in BOOLEAN :
         conn' = [conn EXCEPT ![c].st = IF ok THEN "relay" ELSE "closed"]
    /\ UNCHANGED <<extVars, dpVars, polVars, env, cfg, pc, draining, waited, gsLog, lst, lsPc,
                   al, alWarned, ms, wg, store, probe, sn>>

\* tcp.Handler.Handle: one of the io.Copy goroutines moves bytes
TCPRelay(c) ==
    /\ Alive
    /\ conn[c].st = "relay"
    /\ conn' = [conn EXCEPT ![c].drainRelay = (draining = 1)]
    /\ UNCHANGED <<extVars, dpVars, polVars, env, cfg, pc, draining, waited, gsLog, lst, lsPc,
                   al, alWarned, ms, wg, store, probe, sn>>

\* tcp.Handler.Handle: one io.Copy returns (EOF or error), <-errChan
\* unblocks, the deferred dst.Close and src.Close run.
TCPSessionEnd(c) ==
    /\ Alive
    /\ conn[c].st = "relay"
    /\ conn' = [conn EXCEPT ![c].st = "closed"]
    /\ UNCHANGED <<extVars, dpVars, polVars, env, cfg, pc, draining, waited, gsLog, lst, lsPc,
                   al, alWarned, ms, wg, store, probe, sn>>

\* a runtime panic in the goroutine of handleConn (CheckConnection, Sniff,
\* tcp.Handler.Handle): no recover is deferred anywhere on that stack, so
\* the Go runtime ends the process with exit status 2.
ConnTaskPanic(c) ==
    /\ Alive
    /\ conn[c].st \in {"spawned", "dial", "relay"}
    /\ pc' = "crash"
    /\ UNCHANGED <<extVars, dpVars, polVars, env, cfg, draining, waited, gsLog, lst, lsPc,
                   al, alWarned, ms, wg, store, conn, probe, sn>>

\* ---------------------------------------------------------------------
\* core.Server.GracefulShutdown
\* ---------------------------------------------------------------------
K8sWaitTime(timeout) ==
    IF timeout < ShortTimeoutLimit THEN K8sWaitShort ELSE K8sWaitDefault

\* the remainder without the clamp at 0
RemainingTime_NoClamp(timeout, k8sWaitTime) == timeout - k8sWaitTime

RemainingTime(timeout, k8sWaitTime) ==
    LET r == timeout - k8sWaitTime IN IF r < 0 THEN 0 ELSE r

\* main() receives SIGINT/SIGTERM and calls GracefulShutdown, whose first
\* statement is atomic.StoreInt32(&s.draining, 1)
GS_MarkDraining ==
    /\ pc = "serving"
    /\ draining' = 1
    /\ gsLog' = Append(gsLog, "mark_draining")
    /\ pc' = "gs_k8s_wait"
    /\ UNCHANGED <<extVars, dpVars, polVars, env, cfg, waited, lst, lsPc, al, alWarned, ms, wg,
                   store, conn, probe, sn>>

\* time.Sleep(k8sWaitTime)
GS_K8sWait ==
    /\ pc = "gs_k8s_wait"
    /\ waited' = waited + K8sWaitTime(cfg.shutdownTimeout)
    /\ gsLog' = Append(gsLog, "k8s_wait")
    /\ pc' = "gs_stop"
    /\ UNCHANGED <<extVars, dpVars, polVars, env, cfg, draining, lst, lsPc, al, alWarned, ms, wg,
                   store, conn, probe, sn>>

\* a Stop that also hard-closes the sockets of the running TCP sessions
GS_StopListener_ClosesSessions ==
    /\ pc = "gs_stop"
    /\ lst' = IF lst # "nil" THEN "closed" ELSE lst
    /\ conn' = [c \in Conns |->
                  IF conn[c].st = "relay" THEN [conn[c] EXCEPT !.st = "closed"]
                  ELSE conn[c]]
    /\ gsLog' = Append(gsLog, "stop_listener")
    /\ pc' = "gs_drain"
    /\ UNCHANGED <<extVars, dpVars, polVars, env, cfg, draining, waited, lsPc, al, alWarned, ms, wg,
                   store, probe, sn>>

\* s.listener.Stop(): closes the listener if Listener.Start has set it
GS_StopListener ==
    /\ pc = "gs_stop"
    /\ lst' = IF lst # "nil" THEN "closed" ELSE lst
    /\ gsLog' = Append(gsLog, "stop_listener")
    /\ pc' = "gs_drain"
    /\ UNCHANGED <<extVars, dpVars, polVars, env, cfg, draining, waited, lsPc, al, alWarned, ms, wg,
                   store, conn, probe, sn>>

\* remainingTime, clamped at 0; time.Sleep(remainingTime) when positive
GS_DrainWait ==
    /\ pc = "gs_drain"
    /\ waited' = waited + RemainingTime(cfg.shutdownTimeout,
                                        K8sWaitTime(cfg.shutdownTimeout))
    /\ gsLog' = Append(gsLog, "drain_wait")
    /\ pc' = "gs_metrics"
    /\ UNCHANGED <<extVars, dpVars, polVars, env, cfg, draining, lst, lsPc, al, alWarned, ms, wg,
                   store, conn, probe, sn>>

\* s.metricsServer.Shutdown(ctx) when the metrics server exists
GS_ShutdownMetrics ==
    /\ pc = "gs_metrics"
    /\ ms' = IF ms \in {"spawned", "serving"} THEN "closing" ELSE ms
    /\ gsLog' = Append(gsLog, "shutdown_metrics")
    /\ pc' = "gs_join"
    /\ UNCHANGED <<extVars, dpVars, polVars, env, cfg, draining, waited, lst, lsPc, al, alWarned, wg,
                   store, conn, probe, sn>>

\* a join that does not wait for the background goroutines
GS_Join_NoWait ==
    /\ pc = "gs_join"
    /\ gsLog' = Append(gsLog, "join")
    /\ pc' = "gs_close"
    /\ UNCHANGED <<extVars, dpVars, polVars, env, cfg, draining, waited, lst, lsPc, al, alWarned, ms,
                   wg, store, conn, probe, sn>>

\* s.wg.Wait()
GS_Join ==
    /\ pc = "gs_join"
    /\ wg = 0
    /\ gsLog' = Append(gsLog, "join")
    /\ pc' = "gs_close"
    /\ UNCHANGED <<extVars, dpVars, polVars, env, cfg, draining, waited, lst, lsPc, al, alWarned, ms,
                   wg, store, conn, probe, sn>>

\* a shutdown that clears the draining flag once it has completed
GS_CloseStore_ClearsFlag ==
    /\ pc = "gs_close"
    /\ store' = IF store # "nil" THEN "closed" ELSE store
    /\ draining' = 0
    /\ gsLog' = Append(gsLog, "close_store")
    /\ pc' = "exit0"
    /\ UNCHANGED <<extVars, dpVars, polVars, env, cfg, waited, lst, lsPc, al, alWarned, ms,
                   wg, conn, probe, sn>>

\* s.redisStore.Close(); GracefulShutdown returns and main() returns
GS_CloseStore ==
    /\ pc = "gs_close"
    /\ store' = IF store # "nil" THEN "closed" ELSE store
    /\ gsLog' = Append(gsLog, "close_store")
    /\ pc' = "exit0"
    /\ UNCHANGED <<extVars, dpVars, polVars, env, cfg, draining, waited, lst, lsPc, al, alWarned, ms,
                   wg, conn, probe, sn>>

\* ---------------------------------------------------------------------
\* the gateway process
\* ---------------------------------------------------------------------
Next ==
    \/ MainLoadConfig
    \/ ServerStart
    \/ MetricsListen
    \/ MetricsReturn
    \/ Probe
    \/ ListenerStart
    \/ AcceptConn
    \/ AcceptTemporaryError
    \/ AcceptPermanentError
    \/ AcceptClosedError
    \/ \E c \in Conns : HandleConn(c)
    \/ \E c \in Conns : HTTPExchangeEnd(c)
    \/ \E c \in Conns : TCPDial(c)
    \/ \E c \in Conns : TCPRelay(c)
    \/ \E c \in Conns : TCPSessionEnd(c)
    \/ \E c \in Conns : ConnTaskPanic(c)
    \/ GS_MarkDraining
    \/ GS_K8sWait
    \/ GS_StopListener
    \/ GS_DrainWait
    \/ GS_ShutdownMetrics
    \/ GS_Join
    \/ GS_CloseStore

Spec == Init /\ [][Next]_vars

\* ---------------------------------------------------------------------
\* one connection through Listener.handleConn, byte by byte
\* ---------------------------------------------------------------------
InitSniff ==
    /\ env \in {e \in EnvSet : /\ e.keyExists
                               /\ "server.listen_addr" \in e.hash
                               /\ ~e.metricsEnabled}
    /\ LET b == LoadBusinessConfig(env, 0)
       IN  cfg = [LoadConfig(env) EXCEPT !.listenAddr = b.listenAddr,
                                         !.httpURL = b.httpURL,
                                         !.tcpAddr = b.tcpAddr]
    /\ pc = "serving"
    /\ draining = 0
    /\ waited = 0
    /\ gsLog = <<>>
    /\ lst = IF HttpHandlerPresent \/ TcpHandlerPresent THEN "open" ELSE "nil"
    /\ lsPc = IF HttpHandlerPresent \/ TcpHandlerPresent THEN "ok" ELSE "failed"
    /\ al = IF HttpHandlerPresent \/ TcpHandlerPresent THEN "running" ELSE "none"
    /\ alWarned = FALSE
    /\ ms = "none"
    /\ wg = 0
    /\ store = "open"
    /\ conn = [c \in Conns |-> IdleConn]
    /\ probe = NoProbe
    /\ (HttpHandlerPresent \/ TcpHandlerPresent)
    /\ sn \in {[phase |-> "accepted", stream |-> s, avail |-> a, end |-> e] :
                 s \in Streams, a \in 0..(4 + MaxTail), e \in Ends}
    /\ sn.avail <= Len(sn.stream)
    /\ secStore = EmptySecStore
    /\ mgr = NoManager
    /\ hints = 0
    /\ clock = 0
    /\ calls = <<>>
    /\ audit = <<>>
    /\ reload = NoReload
    /\ last = NoCall
    /\ swap = SwapIdle
    /\ cx = CxIdle
    /\ sockPairMap = {}
    /\ ExtIdle

\* the bytes the client puts on the socket over the life of the connection:
\* a peer that closed after `avail` bytes sent nothing more; a peer that was
\* merely slow delivers the rest of `stream` after the peek deadline
Sent(stream, avail, end) ==
    IF end = "EOF" THEN SubSeq(stream, 1, Min(avail, Len(stream))) ELSE stream

\* sizes of the buffers the handlers pass to SniffConn.Read
ReadSizes == {1, 3, BufSize}

\* Listener.handleConn on the followed connection: CheckConnection, Sniff on
\* the peeked bytes, dispatch. Peek(5) fills the bufio buffer with `b` bytes:
\* everything that arrived when fewer than 5 came before the deadline,
\* otherwise at least the 5 bytes asked for.
SnHandleConn ==
    /\ sn.phase = "accepted"
    /\ \E deny \in BOOLEAN :
         IF deny
         THEN sn' = [sn EXCEPT !.phase = "rejected"]
         ELSE LET pk == Peek(sn.stream, sn.avail, sn.end)
                  proto == Sniff(pk.bytes, pk.err)
                  sent == Sent(sn.stream, sn.avail, sn.end)
              IN  \E b \in Len(pk.bytes)..Min(sn.avail, BufSize) :
                    /\ (Len(pk.bytes) < PeekSize => b = Len(pk.bytes))
                    /\ sn' = [phase |-> "dispatched", stream |-> sn.stream,
                              avail |-> sn.avail, end |-> sn.end,
                              peeked |-> pk.bytes, err |-> pk.err,
                              proto |-> proto,
                              handler |-> Dispatch(proto, HttpHandlerPresent,
                                                   TcpHandlerPresent),
                              buf |-> SubSeq(sent, 1, b), pos |-> b,
                              out |-> <<>>, reads |-> 0,
                              dialed |-> FALSE, eof |-> FALSE]
    /\ UNCHANGED <<extVars, dpVars, polVars, env, cfg, pc, draining, waited, gsLog, lst, lsPc,
                   al, alWarned, ms, wg, store, conn, probe>>

\* tcp.Handler.Handle on the followed connection: the upstream dial succeeds
SnTCPDial ==
    /\ sn.phase = "dispatched"
    /\ sn.handler = "tcp"
    /\ ~sn.dialed
    /\ sn' = [sn EXCEPT !.dialed = TRUE]
    /\ UNCHANGED <<extVars, dpVars, polVars, env, cfg, pc, draining, waited, gsLog, lst, lsPc,
                   al, alWarned, ms, wg, store, conn, probe>>

\* the handler of the followed connection is reading from it
SnReading ==
    /\ sn.phase = "dispatched"
    /\ ~sn.eof
    /\ \/ sn.handler = "http"
       \/ sn.handler = "tcp" /\ sn.dialed

\* a Read that goes to the embedded net.Conn, past the bufio buffer
SnRead_FromSocket(size) ==
    /\ SnReading
    /\ LET sent == Sent(sn.stream, sn.avail, sn.end)
           left == Len(sent) - sn.pos
       IN  IF left = 0
           THEN /\ sn.end = "EOF"
                /\ sn' = [sn EXCEPT !.eof = TRUE]
           ELSE \E chunk \in 1..left :
                  LET k == Min(size, chunk)
                  IN  sn' = [sn EXCEPT
                               !.out = sn.out \o SubSeq(sent, sn.pos + 1,
                                                        sn.pos + k),
                               !.pos = sn.pos + k,
                               !.reads = sn.reads + 1]
    /\ UNCHANGED <<extVars, dpVars, polVars, env, cfg, pc, draining, waited, gsLog, lst, lsPc,
                   al, alWarned, ms, wg, store, conn, probe>>

\* SniffConn.Read(p) with len(p) = size, that is bufio.Reader.Read: buffered
\* bytes first; with an empty buffer one read of the socket, straight into p
\* when p is at least as large as the buffer, through the buffer otherwise.
\* `chunk` is what the socket hands over in that one read.
SnRead(size) ==
    /\ SnReading
    /\ LET sent == Sent(sn.stream, sn.avail, sn.end)
           left == Len(sent) - sn.pos
       IN  IF Len(sn.buf) > 0
           THEN LET k == Min(size, Len(sn.buf))
                IN  sn' = [sn EXCEPT
                             !.out = sn.out \o SubSeq(sn.buf, 1, k),
                             !.buf = SubSeq(sn.buf, k + 1, Len(sn.buf)),
                             !.reads = sn.reads + 1]
           ELSE IF left = 0
           THEN /\ sn.end = "EOF"
                /\ sn' = [sn EXCEPT !.eof = TRUE]
           ELSE \E chunk \in 1..left :
                  IF size >= BufSize
                  THEN LET k == Min(size, chunk)
                       IN  sn' = [sn EXCEPT
                                    !.out = sn.out \o SubSeq(sent, sn.pos + 1,
                                                             sn.pos + k),
                                    !.pos = sn.pos + k,
                                    !.reads = sn.reads + 1]
                  ELSE LET w == Min(chunk, BufSize)
                           filled == SubSeq(sent, sn.pos + 1, sn.pos + w)
                           k == Min(size, w)
                       IN  sn' = [sn EXCEPT
                                    !.out = sn.out \o SubSeq(filled, 1, k),
                                    !.buf = SubSeq(filled, k + 1, w),
                                    !.pos = sn.pos + w,
                                    !.reads = sn.reads + 1]
    /\ UNCHANGED <<extVars, dpVars, polVars, env, cfg, pc, draining, waited, gsLog, lst, lsPc,
                   al, alWarned, ms, wg, store, conn, probe>>

NextSniff ==
    \/ SnHandleConn
    \/ SnTCPDial
    \/ \E size \in ReadSizes : SnRead(size)

SpecSniff == InitSniff /\ [][NextSniff]_vars

\* ---------------------------------------------------------------------
\* connection admission and policy reload
\* ---------------------------------------------------------------------
\* Listener.handleConn on a connection from `ip`: CheckConnection; a refusal
\* is audited and the connection closed, otherwise Sniff and dispatch.
\* `calls` keeps when, from where and with what result each connection was
\* checked; `last` keeps the details of the latest one.
PolHandleConn(ip) ==
    /\ Alive
    /\ Len(calls) < MaxCalls
    /\ LET r == CheckConnection(mgr, ip, clock)
           id == Len(calls) + 1
           detail == [id |-> id, waf |-> mgr.wafEnabled,
                      listed |-> ip \in mgr.blockedIPs,
                      limBefore |-> mgr.limiter, limAfter |-> r.m.limiter,
                      avail |-> IF mgr.limiter.on
                                THEN Advance(mgr.limiter, clock) ELSE 0]
       IN  /\ mgr' = r.m
           /\ calls' = Append(calls, [t |-> clock, ip |-> ip, err |-> r.err,
                                      gen |-> reload.n])
           /\ IF r.err # ErrNil
              THEN \E written \in BOOLEAN :
                     /\ audit' = audit \o AuditTCP(mgr, id, "", FALSE,
                                                   r.err, written)
                     /\ last' = [sniffed |-> FALSE, next |-> "closed",
                                 written |-> written] @@ detail
              ELSE \E d \in {Dispatch(Sniff(pk.bytes, pk.err),
                                      HttpHandlerPresent, TcpHandlerPresent) :
                               pk \in SamplePeeks} :
                     /\ audit' = audit
                     /\ last' = [sniffed |-> TRUE, next |-> d,
                                 written |-> FALSE] @@ detail
    /\ UNCHANGED <<extVars, dpVars, env, cfg, pc, draining, waited, gsLog, lst, lsPc, al,
                   alWarned, ms, wg, store, conn, probe, sn,
                   secStore, hints, clock, reload>>

\* time passes
PolTick ==
    /\ Alive
    /\ clock < MaxTicks
    /\ clock' = clock + 1
    /\ UNCHANGED <<extVars, dpVars, env, cfg, pc, draining, waited, gsLog, lst, lsPc, al,
                   alWarned, ms, wg, store, conn, probe, sn,
                   secStore, mgr, hints, calls, audit, reload, last>>

\* a listener whose send never gets a hint into the channel
Publish_AlwaysDrops(h) == h

\* RedisStore.listenUpdates: a message on config:changed is queued for the
\* manager, or dropped when the channel is full
Publish(h) == IF h < UpdatesCap THEN h + 1 ELSE h

\* an admin tool publishes on config:changed without changing a key
AdminPublish ==
    /\ Alive
    /\ store = "open"
    /\ reload.n + hints < MaxReloads
    /\ hints' = Publish(hints)
    /\ UNCHANGED <<extVars, dpVars, env, cfg, pc, draining, waited, gsLog, lst, lsPc, al,
                   alWarned, ms, wg, store, conn, probe, sn,
                   secStore, mgr, clock, calls, audit, reload, last>>

\* an admin tool rewrites one security key and publishes on config:changed
AdminUpdate ==
    /\ Alive
    /\ store = "open"
    /\ reload.n + hints < MaxAdminOps
    /\ \E st \in SecStores :
         /\ Cardinality({k \in DOMAIN st : st[k] # secStore[k]}) = 1
         /\ secStore' = st
    /\ hints' = Publish(hints)
    /\ UNCHANGED <<extVars, dpVars, env, cfg, pc, draining, waited, gsLog, lst, lsPc, al,
                   alWarned, ms, wg, store, conn, probe, sn,
                   mgr, clock, calls, audit, reload, last>>

\* Manager.consumeRedisUpdates, one iteration: take a hint, load the whole
\* security policy (reads in `failed` return an error), apply the snapshot
PolReload(failed) ==
    /\ Alive
    /\ hints > 0
    /\ hints' = hints - 1
    /\ LET after == applySnapshot(mgr, LoadSecurityConfig(secStore, failed),
                                  clock)
       IN  /\ mgr' = after
           /\ reload' = [n |-> reload.n + 1, store |-> secStore,
                         failed |-> failed, before |-> mgr, after |-> after]
    /\ UNCHANGED <<extVars, dpVars, env, cfg, pc, draining, waited, gsLog, lst, lsPc, al,
                   alWarned, ms, wg, store, conn, probe, sn,
                   secStore, clock, calls, audit, last>>

\* a gateway that has started with a complete business configuration
Serving ==
    /\ env = [redisEnabled |-> TRUE, reachable |-> TRUE, keyExists |-> TRUE,
              hash |-> BusinessFields, metricsEnabled |-> FALSE]
    /\ LET b == LoadBusinessConfig(env, 0)
       IN  cfg = [LoadConfig(env) EXCEPT !.listenAddr = b.listenAddr,
                                         !.httpURL = b.httpURL,
                                         !.tcpAddr = b.tcpAddr]
    /\ pc = "serving"
    /\ draining = 0
    /\ waited = 0
    /\ gsLog = <<>>
    /\ lst = "open"
    /\ lsPc = "ok"
    /\ al = "running"
    /\ alWarned = FALSE
    /\ ms = "none"
    /\ wg = 0
    /\ store = "open"
    /\ conn = [c \in Conns |-> IdleConn]
    /\ probe = NoProbe
    /\ sn = SnIdle

\* stores of the admission runs: a rate limit that is on, or no rate_limit
\* key; the deny list with or without the WAF flag
AdmitStores ==
    {st \in SecStores :
       /\ st.authCfg = "absent" /\ st.subjects = {} /\ st.patterns = {}
       /\ st.wafCfg \in {"absent", "on"}
       /\ (st.rate.present => st.rate.enabled /\ st.rate.rps > 0)}

\* connection admission under a fixed policy
InitAdmit ==
    /\ Serving
    /\ secStore \in AdmitStores
    /\ \E a \in BOOLEAN : mgr = NewManager(secStore, a, 0)
    /\ hints = 0
    /\ clock = 0
    /\ calls = <<>>
    /\ audit = <<>>
    /\ reload = [n |-> 0, store |-> secStore, failed |-> {},
                 before |-> mgr, after |-> mgr]
    /\ last = NoCall
    /\ swap = SwapIdle
    /\ cx = CxIdle
    /\ sockPairMap = {}
    /\ ExtIdle

NextAdmit ==
    \/ \E ip \in ClientIPs : PolHandleConn(ip)
    \/ PolTick
    \/ AdminPublish
    \/ PolReload({})

SpecAdmit == InitAdmit /\ [][NextAdmit]_vars

\* hot reload of the security policy
InitReload ==
    /\ Serving
    /\ secStore \in SecStores
    /\ mgr = NewManager(secStore, TRUE, 0)
    /\ hints = 0
    /\ clock = 0
    /\ calls = <<>>
    /\ audit = <<>>
    /\ reload = [n |-> 0, store |-> secStore, failed |-> {},
                 before |-> mgr, after |-> mgr]
    /\ last = NoCall
    /\ swap = SwapIdle
    /\ cx = CxIdle
    /\ sockPairMap = {}
    /\ ExtIdle

NextReload ==
    \/ AdminUpdate
    \/ \E failed \in FailSets : PolReload(failed)

SpecReload == InitReload /\ [][NextReload]_vars

\* ---------------------------------------------------------------------
\* a reload next to an admission decision, lock section by lock section
\* ---------------------------------------------------------------------
\* Manager.consumeRedisUpdates takes a message and loads the policy
SwapLoad ==
    /\ Alive
    /\ swap.on
    /\ swap.rpc = 0
    /\ hints > 0
    /\ hints' = hints - 1
    /\ LET sec == LoadSecurityConfig(secStore, {})
       IN  /\ swap' = [swap EXCEPT !.rpc = 1, !.snap = sec]
           /\ reload' = [n |-> reload.n + 1, store |-> secStore,
                         failed |-> {}, before |-> mgr,
                         after |-> applySnapshot(mgr, sec, clock)]
    /\ UNCHANGED <<extVars, cx, sockPairMap, env, cfg, pc, draining, waited, gsLog,
                   lst, lsPc, al, alWarned, ms, wg, store, conn, probe, sn,
                   secStore, mgr, clock, calls, audit, last>>

\* Manager.applySnapshot: its next update, under the state lock
SwapApply ==
    /\ Alive
    /\ swap.on
    /\ swap.rpc \in 1..Len(SnapshotSteps)
    /\ mgr' = applyStep(mgr, swap.snap, SnapshotSteps[swap.rpc], clock)
    /\ swap' = [swap EXCEPT !.rpc = IF swap.rpc = Len(SnapshotSteps)
                                    THEN 0 ELSE swap.rpc + 1]
    /\ UNCHANGED <<extVars, cx, sockPairMap, env, cfg, pc, draining, waited, gsLog,
                   lst, lsPc, al, alWarned, ms, wg, store, conn, probe, sn,
                   secStore, hints, clock, calls, audit, reload, last>>

\* CheckConnection or ApplyWAF up to the end of isBlockedIP, which reads
\* the deny set under the read lock; AuthorizeHTTP up to its read of the
\* allowed subjects
SwapBegin(kind, ip, req) ==
    /\ Alive
    /\ swap.on
    /\ swap.cpc = "idle"
    /\ swap' = [swap EXCEPT !.cpc = "read", !.kind = kind, !.ip = ip,
                            !.req = req, !.ipsSeen = mgr.blockedIPs]
    /\ UNCHANGED <<extVars, cx, sockPairMap, env, cfg, pc, draining, waited, gsLog,
                   lst, lsPc, al, alWarned, ms, wg, store, conn, probe, sn,
                   polVars>>

\* the rest of the decision: getLimiter and Allow, getBlockedPatterns and
\* the matching, or the membership test on the allowed subjects
SwapFinish ==
    /\ Alive
    /\ swap.on
    /\ swap.cpc = "read"
    /\ LET seen == [mgr EXCEPT !.blockedIPs = swap.ipsSeen]
           r == CASE swap.kind = "CheckConnection" ->
                       CheckConnection(seen, swap.ip, clock)
                  [] swap.kind = "ApplyWAF" ->
                       [err |-> ApplyWAF(seen, swap.ip, swap.req), m |-> seen]
                  [] swap.kind = "AuthorizeHTTP" ->
                       [err |-> AuthorizeHTTP(seen, swap.req), m |-> seen]
           listed == seen.wafEnabled /\ swap.ip \in swap.ipsSeen
           passedIPs == \/ swap.kind = "CheckConnection" /\ ~listed
                        \/ /\ swap.kind = "ApplyWAF"
                           /\ seen.wafEnabled /\ ~listed
       IN  /\ mgr' = [mgr EXCEPT !.limiter = r.m.limiter]
           /\ swap' = [swap EXCEPT
                         !.cpc = "done", !.err = r.err,
                         !.second = passedIPs,
                         !.limSeen = IF swap.kind = "CheckConnection"
                                     THEN [on |-> mgr.limiter.on,
                                           rps |-> mgr.limiter.rps,
                                           burst |-> mgr.limiter.burst]
                                     ELSE @,
                         !.patternsSeen = IF swap.kind = "ApplyWAF"
                                          THEN mgr.blockedPatterns ELSE @]
    /\ UNCHANGED <<extVars, cx, sockPairMap, env, cfg, pc, draining, waited, gsLog,
                   lst, lsPc, al, alWarned, ms, wg, store, conn, probe, sn,
                   secStore, hints, clock, calls, audit, reload, last>>

SwapReady ==
    [on |-> TRUE, rpc |-> 0, snap |-> DefaultSecurityState, cpc |-> "idle",
     kind |-> "", ip |-> "", req |-> NoRequest, ipsSeen |-> {},
     err |-> ErrNil, second |-> FALSE,
     limSeen |-> [on |-> FALSE, rps |-> 0, burst |-> 0],
     patternsSeen |-> {}]

\* stores of the swap runs: every section present and switched on
SwapStores ==
    {st \in SecStores :
       /\ st.authCfg = "on" /\ st.wafCfg = "on"
       /\ st.rate.present /\ st.rate.enabled /\ st.rate.rps > 0}

\* requests of the swap runs: no TLS, as on the gateway's plain listener
SwapRequests ==
    {q \in Requests : q.certs = <<>> /\ q.mode = "keepalive"}

\* the gateway started from one store; an admin tool has since rewritten
\* the security keys and published one message on config:changed
InitSwap ==
    /\ Serving
    /\ secStore \in SwapStores
    /\ \E old \in SwapStores :
         /\ mgr = NewManager(old, TRUE, 0)
         /\ reload = [n |-> 0, store |-> old, failed |-> {},
                      before |-> mgr, after |-> mgr]
    /\ hints = 1
    /\ clock = 0
    /\ calls = <<>>
    /\ audit = <<>>
    /\ last = NoCall
    /\ swap = SwapReady
    /\ cx = CxIdle
    /\ sockPairMap = {}
    /\ ExtIdle

NextSwap ==
    \/ SwapLoad
    \/ SwapApply
    \/ \E ip \in ClientIPs : SwapBegin("CheckConnection", ip, NoRequest)
    \/ \E ip \in ClientIPs : \E req \in SwapRequests :
         SwapBegin("ApplyWAF", ip, req)
    \/ \E req \in SwapRequests : SwapBegin("AuthorizeHTTP", "", req)
    \/ SwapFinish

SpecSwap == InitSwap /\ [][NextSwap]_vars

\* ---------------------------------------------------------------------
\* AuthorizeHTTP as a function of the request
\* ---------------------------------------------------------------------
\* one call of Manager.AuthorizeHTTP
AuthzCall(req) ==
    /\ cx.phase = "authz"
    /\ cx' = [phase |-> "authz", called |-> TRUE, req |-> req,
              err |-> AuthorizeHTTP(mgr, req)]
    /\ UNCHANGED <<extVars, swap, sockPairMap, env, cfg, pc, draining, waited, gsLog,
                   lst, lsPc, al, alWarned, ms, wg, store, conn, probe, sn,
                   polVars>>

InitAuthz ==
    /\ Serving
    /\ secStore \in SecStores
    /\ secStore.rate = RateAbsent
    /\ mgr = NewManager(secStore, TRUE, 0)
    /\ hints = 0
    /\ clock = 0
    /\ calls = <<>>
    /\ audit = <<>>
    /\ reload = [n |-> 0, store |-> secStore, failed |-> {},
                 before |-> mgr, after |-> mgr]
    /\ last = NoCall
    /\ swap = SwapIdle
    /\ cx = [phase |-> "authz", called |-> FALSE, req |-> NoRequest,
             err |-> ErrNil]
    /\ sockPairMap = {}
    /\ ExtIdle

\* requests that differ in what AuthorizeHTTP reads
AuthzRequests ==
    {q \in Requests : /\ q.path = <<"/api/", "items">>
                      /\ q.rawQuery = <<>>
                      /\ q.mode = "keepalive"}

NextAuthz == \E req \in AuthzRequests : AuthzCall(req)

SpecAuthz == InitAuthz /\ [][NextAuthz]_vars

\* ---------------------------------------------------------------------
\* one connection from admission to the end of its handler
\* ---------------------------------------------------------------------
ConnId == 1

\* the connection has passed CheckConnection and was handed to `handler`
Dispatched(handler) ==
    /\ Len(calls) = ConnId
    /\ last.id = ConnId
    /\ last.next = handler

\* Listener.handleConn on the connection this run follows
CxAdmit ==
    /\ cx.phase = "new"
    /\ Len(calls) = 0
    /\ \E ip \in ClientIPs : PolHandleConn(ip)

\* the active-connections gauge, one value per protocol label
IncActiveConnections(g, protocol) == [g EXCEPT ![protocol] = @ + 1]

DecActiveConnections(g, protocol) == [g EXCEPT ![protocol] = @ - 1]

\* http.Handler.ServeConn: the gauge is incremented and its decrement
\* deferred; server.Serve takes the connection from the oneShotListener
\* and starts the goroutine that serves it; the second Accept returns
\* ErrListenerClosed, Serve returns, and so do ServeConn, with the
\* deferred decrement, and handleConn. Nothing closes the connection.
HTTPServeConn ==
    /\ Alive
    /\ Dispatched("http")
    /\ cx.phase = "new"
    /\ cx' = [cx EXCEPT !.phase = "http", !.serveConnReturned = TRUE]
    /\ gauge' = DecActiveConnections(IncActiveConnections(gauge, "http"),
                                     "http")
    /\ UNCHANGED <<kern, sub, adm, swap, sockPairMap, env, cfg, pc, draining, waited, gsLog,
                   lst, lsPc, al, alWarned, ms, wg, store, conn, probe, sn,
                   polVars>>

\* a handler that forgets the error of ApplyWAF
DenyErr_AuthOnly(authErr, wafErr) == authErr

\* denyErr of the wrapped handler: the error of AuthorizeHTTP, else that
\* of ApplyWAF
DenyErr(authErr, wafErr) == IF authErr # ErrNil THEN authErr ELSE wafErr

\* responses of the upstream to a proxied request; the reverse proxy
\* answers 502 itself when the upstream cannot be reached
UpstreamStatuses == {200, 502}

\* net/http's connection goroutine reads the next request and runs the
\* wrapped handler on it: AuthorizeHTTP, then ApplyWAF; a deny is answered
\* and audited, anything else goes to the reverse proxy and is audited as
\* allowed. The connection stays open for the next request unless the
\* request asked for close or the exchange was an upgrade.
HTTPRequest(req) ==
    /\ Alive
    /\ cx.phase = "http"
    /\ cx.reqs < MaxRequests
    /\ \E up \in UpstreamStatuses, written \in BOOLEAN :
         LET ip == calls[ConnId].ip
             authErr == AuthorizeHTTP(mgr, req)
             wafCalled == authErr = ErrNil
             wafErr == IF wafCalled THEN ApplyWAF(mgr, ip, req) ELSE ErrNil
             denyErr == DenyErr(authErr, wafErr)
             denied == denyErr # ErrNil
             status == IF authErr # ErrNil THEN 401
                       ELSE IF wafErr # ErrNil THEN 403
                       ELSE IF req.mode = "upgrade" /\ up = 200 THEN 101
                       ELSE up
             lines == AuditHTTP(mgr, ConnId, req, status, denyErr, written)
         IN  /\ audit' = audit \o lines
             /\ cx' = [cx EXCEPT
                  !.phase = IF status = 101 THEN "hijacked"
                            ELSE IF req.mode = "close" THEN "closed"
                            ELSE "http",
                  !.reqs = @ + 1,
                  !.req = req,
                  !.policyCalls = IF wafCalled
                                  THEN <<"AuthorizeHTTP", "ApplyWAF">>
                                  ELSE <<"AuthorizeHTTP">>,
                  !.authErr = authErr,
                  !.wafErr = wafErr,
                  !.status = status,
                  !.lines = lines,
                  !.written = written,
                  !.proxiedNow = ~denied,
                  !.proxied = IF denied THEN @ ELSE @ + 1,
                  !.denies = IF authErr # ErrNil \/ wafErr # ErrNil
                             THEN @ + 1 ELSE @,
                  !.lostWrites = IF denied /\ mgr.auditEnabled /\ ~written
                                 THEN @ + 1 ELSE @]
    /\ UNCHANGED <<extVars, swap, sockPairMap, env, cfg, pc, draining, waited, gsLog,
                   lst, lsPc, al, alWarned, ms, wg, store, conn, probe, sn,
                   secStore, mgr, hints, clock, calls, reload, last>>

\* the client closes the connection, or the 30 s read timeout ends it
HTTPClientClose ==
    /\ Alive
    /\ cx.phase \in {"http", "hijacked"}
    /\ cx' = [cx EXCEPT !.phase = "closed"]
    /\ UNCHANGED <<extVars, swap, sockPairMap, env, cfg, pc, draining, waited, gsLog,
                   lst, lsPc, al, alWarned, ms, wg, store, conn, probe, sn,
                   polVars>>

\* socket cookies of the session's two sockets
ClientCookie == "cookie:client"
BackendCookie == "cookie:backend"

BackendAddr == "tcp-backend"

\* SockPairMap.Update(key, value, UpdateAny) on the map as a set of pairs
MapUpdate(map, key, value) ==
    {e \in map : e[1] # key} \cup {<<key, value>>}

\* SockPairMap.Delete(key)
MapDelete(map, key) == {e \in map : e[1] # key}

\* where RegisterSocketPair can fail: reading either cookie, or either
\* update of the map
RegFailures == {"none", "client_cookie", "backend_cookie", "first_update",
                "second_update"}

\* SockMapManager.RegisterSocketPair: the error it returns and the map it
\* leaves
RegisterSocketPair(map, enabled, fail) ==
    IF ~enabled THEN [err |-> FALSE, map |-> map]
    ELSE IF fail \in {"client_cookie", "backend_cookie", "first_update"}
    THEN [err |-> TRUE, map |-> map]
    ELSE LET m1 == MapUpdate(map, ClientCookie, BackendCookie)
         IN  IF fail = "second_update" THEN [err |-> TRUE, map |-> m1]
             ELSE [err |-> FALSE,
                   map |-> MapUpdate(m1, BackendCookie, ClientCookie)]

\* SockMapManager.UnregisterSocketPair
UnregisterSocketPair(map, enabled) ==
    IF ~enabled THEN map
    ELSE MapDelete(MapDelete(map, ClientCookie), BackendCookie)

\* capacity of errChan and of bytesChan
ChanCap == 2

\* tcp.Handler.Handle after a failed dial that leaves the client open
AfterDialError_KeepsClient(c) ==
    [c EXCEPT !.phase = "closed", !.hpc = "returned", !.dials = @ + 1,
              !.metrics = Append(@, "connection_failed")]

\* tcp.Handler.Handle after a failed dial: the failure metric, and the
\* deferred src.Close on return
AfterDialError(c) ==
    [c EXCEPT !.phase = "closed", !.hpc = "returned", !.dials = @ + 1,
              !.srcOpen = FALSE,
              !.metrics = Append(@, "connection_failed")]

\* tcp.Handler.Handle up to the receive from errChan: the increment of
\* the gauge, dial, audit, the registration of the pair when acceleration
\* is on, the two channels and the two copy goroutines; a failed dial
\* returns, with the deferred decrement
TCPHandleStart ==
    /\ Alive
    /\ Dispatched("tcp")
    /\ cx.phase = "new"
    /\ \E dialed \in BOOLEAN, written \in BOOLEAN :
         IF ~dialed
         THEN /\ audit' = audit \o AuditTCP(mgr, ConnId, BackendAddr, FALSE,
                                             <<"dial error">>, written)
              /\ cx' = [AfterDialError(cx) EXCEPT
                         !.written = written,
                         !.lostWrites = IF mgr.auditEnabled /\ ~written
                                        THEN @ + 1 ELSE @]
              /\ sockPairMap' = sockPairMap
              /\ gauge' = DecActiveConnections(
                             IncActiveConnections(gauge, "tcp"), "tcp")
         ELSE \E fail \in IF cx.ebpf THEN RegFailures ELSE {"none"} :
                LET r == RegisterSocketPair(sockPairMap, cx.ebpf, fail)
                IN  /\ audit' = audit \o AuditTCP(mgr, ConnId, BackendAddr,
                                                   TRUE, ErrNil, written)
                    /\ sockPairMap' = r.map
                    /\ cx' = [cx EXCEPT
                         !.phase = "tcp", !.hpc = "wait", !.dials = @ + 1,
                         !.dialed = TRUE, !.dstOpen = TRUE,
                         !.written = written,
                         !.regFail = fail,
                         !.registered = cx.ebpf /\ ~r.err,
                         !.deferUnregister = cx.ebpf /\ ~r.err,
                         !.up = [st |-> "copying", n |-> 0],
                         !.down = [st |-> "copying", n |-> 0]]
                    /\ gauge' = IncActiveConnections(gauge, "tcp")
    /\ UNCHANGED <<kern, sub, adm, swap, env, cfg, pc, draining, waited, gsLog,
                   lst, lsPc, al, alWarned, ms, wg, store, conn, probe, sn,
                   secStore, mgr, hints, clock, calls, reload, last>>

Dirs == {"up", "down"}

\* io.Copy of one direction relays a byte
TCPCopyByte(dir) ==
    /\ Alive
    /\ cx.phase = "tcp"
    /\ cx[dir].st = "copying"
    /\ cx.srcOpen /\ cx.dstOpen
    /\ cx[dir].n < MaxBytes
    /\ cx' = [cx EXCEPT ![dir].n = @ + 1]
    /\ UNCHANGED <<extVars, swap, sockPairMap, env, cfg, pc, draining, waited, gsLog,
                   lst, lsPc, al, alWarned, ms, wg, store, conn, probe, sn,
                   polVars>>

\* io.Copy of one direction returns because its peer has closed or failed
TCPCopyEnd(dir) ==
    /\ Alive
    /\ cx.phase = "tcp"
    /\ cx[dir].st = "copying"
    /\ cx.srcOpen /\ cx.dstOpen
    /\ cx' = [cx EXCEPT ![dir].st = "copied"]
    /\ UNCHANGED <<extVars, swap, sockPairMap, env, cfg, pc, draining, waited, gsLog,
                   lst, lsPc, al, alWarned, ms, wg, store, conn, probe, sn,
                   polVars>>

\* io.Copy of one direction returns because Handle has closed the sockets
TCPCopyAbort(dir) ==
    /\ Alive
    /\ cx.phase \in {"tcp", "closed"}
    /\ cx[dir].st = "copying"
    /\ ~cx.srcOpen \/ ~cx.dstOpen
    /\ cx' = [cx EXCEPT ![dir].st = "copied"]
    /\ UNCHANGED <<extVars, swap, sockPairMap, env, cfg, pc, draining, waited, gsLog,
                   lst, lsPc, al, alWarned, ms, wg, store, conn, probe, sn,
                   polVars>>

\* bytesChan <- {in, out}: blocks while the channel is full
TCPSendBytes(dir) ==
    /\ Alive
    /\ cx.phase \in {"tcp", "closed"}
    /\ cx[dir].st = "copied"
    /\ Len(cx.bytesChan) < ChanCap
    /\ cx' = [cx EXCEPT
                ![dir].st = "sent",
                !.bytesChan =
                   Append(@, IF dir = "up"
                             THEN [in |-> cx.up.n, out |-> 0]
                             ELSE [in |-> 0, out |-> cx.down.n])]
    /\ UNCHANGED <<extVars, swap, sockPairMap, env, cfg, pc, draining, waited, gsLog,
                   lst, lsPc, al, alWarned, ms, wg, store, conn, probe, sn,
                   polVars>>

\* errChan <- err, the goroutine's last statement
TCPSendErr(dir) ==
    /\ Alive
    /\ cx.phase \in {"tcp", "closed"}
    /\ cx[dir].st = "sent"
    /\ Len(cx.errChan) < ChanCap
    /\ cx' = [cx EXCEPT ![dir].st = "done", !.errChan = Append(@, dir)]
    /\ UNCHANGED <<extVars, swap, sockPairMap, env, cfg, pc, draining, waited, gsLog,
                   lst, lsPc, al, alWarned, ms, wg, store, conn, probe, sn,
                   polVars>>

\* Handle: <-errChan
TCPHandleWait ==
    /\ Alive
    /\ cx.phase = "tcp"
    /\ cx.hpc = "wait"
    /\ cx.errChan # <<>>
    /\ cx' = [cx EXCEPT !.hpc = "collect", !.errChan = Tail(@)]
    /\ UNCHANGED <<extVars, swap, sockPairMap, env, cfg, pc, draining, waited, gsLog,
                   lst, lsPc, al, alWarned, ms, wg, store, conn, probe, sn,
                   polVars>>

\* Handle: one round of the collection loop, a receive from bytesChan that
\* does not wait
TCPHandleCollect ==
    /\ Alive
    /\ cx.phase = "tcp"
    /\ cx.hpc = "collect"
    /\ cx.iter < 2
    /\ cx' = IF cx.bytesChan # <<>>
             THEN [cx EXCEPT !.iter = @ + 1,
                             !.bytesIn = @ + Head(cx.bytesChan).in,
                             !.bytesOut = @ + Head(cx.bytesChan).out,
                             !.bytesChan = Tail(@)]
             ELSE [cx EXCEPT !.iter = @ + 1]
    /\ UNCHANGED <<extVars, swap, sockPairMap, env, cfg, pc, draining, waited, gsLog,
                   lst, lsPc, al, alWarned, ms, wg, store, conn, probe, sn,
                   polVars>>

\* a return of Handle that leaves both sockets open
DeferredCloses_None(c) == c

\* the deferred dst.Close and src.Close of Handle
DeferredCloses(c) == [c EXCEPT !.srcOpen = FALSE, !.dstOpen = FALSE]

\* Handle: the metrics, then the deferred calls in reverse order:
\* UnregisterSocketPair when it was deferred, dst.Close, src.Close, the
\* decrement of the gauge
TCPHandleReturn ==
    /\ Alive
    /\ cx.phase = "tcp"
    /\ cx.hpc = "collect"
    /\ cx.iter = 2
    /\ sockPairMap' = IF cx.deferUnregister
                      THEN UnregisterSocketPair(sockPairMap, cx.ebpf)
                      ELSE sockPairMap
    /\ cx' = [DeferredCloses(cx) EXCEPT
                !.phase = "closed", !.hpc = "returned",
                !.registered = FALSE,
                !.recIn = cx.bytesIn, !.recOut = cx.bytesOut,
                !.metrics = Append(@, "success")]
    /\ gauge' = DecActiveConnections(gauge, "tcp")
    /\ UNCHANGED <<kern, sub, adm, swap, env, cfg, pc, draining, waited, gsLog,
                   lst, lsPc, al, alWarned, ms, wg, store, conn, probe, sn,
                   polVars>>

\* the connection before its handler has run
CxNew(ebpf) ==
    [phase |-> "new", ebpf |-> ebpf,
     serveConnReturned |-> FALSE, reqs |-> 0, req |-> NoRequest,
     policyCalls |-> <<>>, authErr |-> ErrNil, wafErr |-> ErrNil,
     status |-> 0, lines |-> <<>>, written |-> FALSE,
     proxiedNow |-> FALSE, proxied |-> 0, denies |-> 0, lostWrites |-> 0,
     hpc |-> "idle", dials |-> 0, dialed |-> FALSE,
     srcOpen |-> TRUE, dstOpen |-> FALSE,
     regFail |-> "none", registered |-> FALSE, deferUnregister |-> FALSE,
     up |-> [st |-> "idle", n |-> 0], down |-> [st |-> "idle", n |-> 0],
     bytesChan |-> <<>>, errChan |-> <<>>, iter |-> 0,
     bytesIn |-> 0, bytesOut |-> 0, recIn |-> 0, recOut |-> 0,
     metrics |-> <<>>]

\* stores of the connection runs: the default rate limit; auth not
\* configured, or on with or without allowed subjects; the WAF not
\* configured, or on with a deny list and a pattern
ConnStores ==
    {st \in SecStores :
       /\ st.rate = RateAbsent
       /\ st.authCfg \in {"absent", "on"}
       /\ st.authCfg = "absent" => st.subjects = {}
       /\ \/ st.wafCfg = "absent" /\ st.ips = {} /\ st.patterns = {}
          \/ /\ st.wafCfg = "on"
             /\ st.ips = StoreIPs /\ st.patterns = StorePatterns}

\* requests on the gateway's listener, which does not terminate TLS
ConnRequests == {q \in Requests : q.certs = <<>>}

InitConn ==
    /\ Serving
    /\ secStore \in ConnStores
    /\ \E a \in BOOLEAN : mgr = NewManager(secStore, a, 0)
    /\ hints = 0
    /\ clock = 0
    /\ calls = <<>>
    /\ audit = <<>>
    /\ reload = [n |-> 0, store |-> secStore, failed |-> {},
                 before |-> mgr, after |-> mgr]
    /\ last = NoCall
    /\ swap = SwapIdle
    /\ \E e \in BOOLEAN : cx = CxNew(e)
    /\ sockPairMap = {}
    /\ ExtIdle

TCPSteps ==
    \/ TCPHandleStart
    \/ \E dir \in Dirs : TCPCopyByte(dir)
    \/ \E dir \in Dirs : TCPCopyEnd(dir)
    \/ \E dir \in Dirs : TCPCopyAbort(dir)
    \/ \E dir \in Dirs : TCPSendBytes(dir)
    \/ \E dir \in Dirs : TCPSendErr(dir)
    \/ TCPHandleWait
    \/ TCPHandleCollect
    \/ TCPHandleReturn

NextConn ==
    \/ CxAdmit
    \/ HTTPServeConn
    \/ \E req \in ConnRequests : HTTPRequest(req)
    \/ HTTPClientClose
    \/ TCPSteps

SpecConn == InitConn /\ [][NextConn]_vars

\* ---------------------------------------------------------------------
\* the TCP session alone, with the scheduling of its goroutines
\* ---------------------------------------------------------------------
InitSplice ==
    /\ InitConn
    /\ secStore.authCfg = "absent"

NextSplice ==
    \/ CxAdmit
    \/ TCPSteps

\* a goroutine that can run does run: Handle past its receive, and each
\* copy goroutine once its io.Copy has returned or its socket is closed.
\* When a peer closes is up to the peer.
FairSplice ==
    /\ WF_vars(TCPHandleWait)
    /\ WF_vars(TCPHandleCollect)
    /\ WF_vars(TCPHandleReturn)
    /\ \A dir \in Dirs : /\ WF_vars(TCPCopyAbort(dir))
                         /\ WF_vars(TCPSendBytes(dir))
                         /\ WF_vars(TCPSendErr(dir))

SpecSplice == InitSplice /\ [][NextSplice]_vars /\ FairSplice

\* ---------------------------------------------------------------------
\* setup of kernel acceleration, and a TCP session after it
\* ---------------------------------------------------------------------
\* how far the setup of the sockmap gets: the build without Linux, the
\* probe map refused, no BTF, loadBpfObjects failing, or everything loaded
SetupOutcomes == {"stub", "unsupported", "no_btf", "load_error", "loaded"}

\* ebpf.NewSockMapManager: every failure returns a disabled manager and a
\* nil error
NewSockMapManager(outcome) ==
    [err |-> FALSE, enabled |-> outcome = "loaded"]

\* SockMapManager.AttachToCgroup: TRUE when it returns an error
AttachToCgroup(enabled, attachFails) == ~enabled \/ attachFails

\* a constructor that gives up when the kernel path is not available
TcpNewHandler_RequiresKernel(addr, outcome, attachFails) ==
    LET m == NewSockMapManager(outcome)
        ok == addr /\ ~m.err /\ m.enabled
              /\ ~AttachToCgroup(m.enabled, attachFails)
    IN  [present |-> ok, ebpfEnabled |-> ok, attached |-> ok]

\* tcp.NewHandler: nil without a backend address; otherwise the handler,
\* with ebpfEnabled as the manager reports it and the cgroup attachment
\* tried only when it is enabled
TcpNewHandler(addr, outcome, attachFails) ==
    IF ~addr
    THEN [present |-> FALSE, ebpfEnabled |-> FALSE, attached |-> FALSE]
    ELSE LET m == NewSockMapManager(outcome)
         IN  IF m.err
             THEN [present |-> TRUE, ebpfEnabled |-> FALSE,
                   attached |-> FALSE]
             ELSE [present |-> TRUE, ebpfEnabled |-> m.enabled,
                   attached |-> m.enabled
                                /\ ~AttachToCgroup(m.enabled, attachFails)]

\* NewServer builds the TCP handler
KernSetup ==
    /\ kern.phase = "setup"
    /\ \E attachFails \in BOOLEAN :
         LET h == TcpNewHandler(cfg.tcpAddr, kern.outcome, attachFails)
         IN  /\ kern' = [kern EXCEPT !.phase = "ready",
                                     !.attachFails = attachFails,
                                     !.handler = h]
             /\ cx' = IF h.present THEN CxNew(h.ebpfEnabled) ELSE cx
    /\ UNCHANGED <<sub, adm, gauge, swap, sockPairMap, env, cfg, pc, draining,
                   waited, gsLog, lst, lsPc, al, alWarned, ms, wg, store,
                   conn, probe, sn, polVars>>

\* a connection is admitted and its TCP session runs on the handler
KernSession ==
    /\ kern.phase = "ready"
    /\ kern.handler.present
    /\ CxAdmit \/ TCPSteps

InitKernel ==
    /\ Serving
    /\ secStore = EmptySecStore
    /\ mgr = NewManager(secStore, FALSE, 0)
    /\ hints = 0
    /\ clock = 0
    /\ calls = <<>>
    /\ audit = <<>>
    /\ reload = [n |-> 0, store |-> secStore, failed |-> {},
                 before |-> mgr, after |-> mgr]
    /\ last = NoCall
    /\ swap = SwapIdle
    /\ cx = CxIdle
    /\ sockPairMap = {}
    /\ \E o \in SetupOutcomes :
         kern = [phase |-> "setup", outcome |-> o, attachFails |-> FALSE,
                 handler |-> [present |-> FALSE, ebpfEnabled |-> FALSE,
                              attached |-> FALSE]]
    /\ sub = SubIdle
    /\ adm = AdmIdle
    /\ gauge = GaugeZero

NextKernel ==
    \/ KernSetup
    \/ KernSession

SpecKernel == InitKernel /\ [][NextKernel]_vars

\* ---------------------------------------------------------------------
\* the accept loop and the controller, with the scheduling of the program
\* ---------------------------------------------------------------------
InitAccept ==
    /\ Serving
    /\ secStore = EmptySecStore
    /\ mgr = NewManager(secStore, FALSE, 0)
    /\ hints = 0
    /\ clock = 0
    /\ calls = <<>>
    /\ audit = <<>>
    /\ reload = [n |-> 0, store |-> secStore, failed |-> {},
                 before |-> mgr, after |-> mgr]
    /\ last = NoCall
    /\ swap = SwapIdle
    /\ cx = CxIdle
    /\ sockPairMap = {}
    /\ ExtIdle

\* the steps GracefulShutdown takes once main has called it
GSSteps ==
    \/ GS_K8sWait
    \/ GS_StopListener
    \/ GS_DrainWait
    \/ GS_ShutdownMetrics
    \/ GS_Join
    \/ GS_CloseStore

NextAccept ==
    \/ AcceptConn
    \/ AcceptTemporaryError
    \/ AcceptPermanentError
    \/ AcceptClosedError
    \/ \E c \in Conns : HandleConn(c)
    \/ \E c \in Conns : HTTPExchangeEnd(c)
    \/ \E c \in Conns : TCPDial(c)
    \/ \E c \in Conns : TCPRelay(c)
    \/ \E c \in Conns : TCPSessionEnd(c)
    \/ GS_MarkDraining
    \/ GSSteps

\* every goroutine of the program that can take a step does take it; when
\* a signal, a client or an Accept error arrives is up to the environment
FairAccept ==
    /\ WF_vars(GSSteps)
    /\ WF_vars(AcceptClosedError)
    /\ \A c \in Conns : WF_vars(HandleConn(c))

SpecAccept == InitAccept /\ [][NextAccept]_vars /\ FairAccept

\* ---------------------------------------------------------------------
\* UpdateBlockedPatterns and ApplyWAF as functions
\* ---------------------------------------------------------------------
\* one call of Manager.UpdateBlockedPatterns
WafUpdate(list) ==
    /\ cx.phase = "waf"
    /\ ~cx.updated
    /\ mgr' = UpdateBlockedPatterns(mgr, list)
    /\ cx' = [cx EXCEPT !.updated = TRUE, !.list = list]
    /\ UNCHANGED <<extVars, swap, sockPairMap, env, cfg, pc, draining, waited,
                   gsLog, lst, lsPc, al, alWarned, ms, wg, store, conn,
                   probe, sn, secStore, hints, clock, calls, audit, reload,
                   last>>

\* one call of Manager.ApplyWAF after the update
WafCall(ip, req) ==
    /\ cx.phase = "waf"
    /\ cx.updated
    /\ cx' = [cx EXCEPT !.called = TRUE, !.ip = ip, !.req = req,
                        !.err = ApplyWAF(mgr, ip, req)]
    /\ UNCHANGED <<extVars, swap, sockPairMap, env, cfg, pc, draining, waited,
                   gsLog, lst, lsPc, al, alWarned, ms, wg, store, conn,
                   probe, sn, polVars>>

\* requests that differ in path and query only
WafRequests ==
    {q \in Requests : q.certs = <<>> /\ q.header = "" /\ q.mode = "keepalive"}

InitPatterns ==
    /\ Serving
    /\ secStore \in SecStores
    /\ secStore.rate = RateAbsent
    /\ secStore.authCfg = "absent" /\ secStore.subjects = {}
    /\ secStore.wafCfg \in {"on", "off"}
    /\ mgr = NewManager(secStore, FALSE, 0)
    /\ hints = 0
    /\ clock = 0
    /\ calls = <<>>
    /\ audit = <<>>
    /\ reload = [n |-> 0, store |-> secStore, failed |-> {},
                 before |-> mgr, after |-> mgr]
    /\ last = NoCall
    /\ swap = SwapIdle
    /\ cx = [phase |-> "waf", updated |-> FALSE, list |-> {},
             called |-> FALSE, ip |-> "", req |-> NoRequest, err |-> ErrNil]
    /\ sockPairMap = {}
    /\ ExtIdle

NextPatterns ==
    \/ \E list \in SUBSET PatternSamples : WafUpdate(list)
    \/ \E ip \in ClientIPs, req \in WafRequests : WafCall(ip, req)

SpecPatterns == InitPatterns /\ [][NextPatterns]_vars

\* ---------------------------------------------------------------------
\* the subscription listener and the update consumer, step by step
\* ---------------------------------------------------------------------
\* listenUpdates: the next message of the subscription is a hint that
\* parses. `owed` says a hint was received and no reload has started since;
\* `dropOwed` says the same of a hint that was dropped.
SubReceive ==
    /\ Alive
    /\ store = "open"
    /\ sub.lpc = "range"
    /\ sub' = [sub EXCEPT !.lpc = "select", !.owed = TRUE]
    /\ UNCHANGED <<kern, adm, gauge, dpVars, env, cfg, pc, draining, waited,
                   gsLog, lst, lsPc, al, alWarned, ms, wg, store, conn,
                   probe, sn, polVars>>

\* listenUpdates: a message that json.Unmarshal rejects is logged and
\* skipped; it is not a hint
SubReceiveMalformed ==
    /\ Alive
    /\ store = "open"
    /\ sub.lpc = "range"
    /\ sub' = [sub EXCEPT !.malformed = TRUE]
    /\ UNCHANGED <<kern, adm, gauge, dpVars, env, cfg, pc, draining, waited,
                   gsLog, lst, lsPc, al, alWarned, ms, wg, store, conn,
                   probe, sn, polVars>>

\* listenUpdates: the select that sends on r.updates or, when the channel
\* is full, takes the default branch and drops the hint
SubSend ==
    /\ Alive
    /\ sub.lpc = "select"
    /\ hints' = Publish(hints)
    /\ sub' = [sub EXCEPT !.lpc = "range",
                          !.dropOwed = @ \/ (Publish(hints) = hints)]
    /\ UNCHANGED <<kern, adm, gauge, dpVars, env, cfg, pc, draining, waited,
                   gsLog, lst, lsPc, al, alWarned, ms, wg, store, conn,
                   probe, sn, secStore, mgr, clock, calls, audit, reload,
                   last>>

\* consumeRedisUpdates: `for update := range ch` takes a hint; the reload
\* starts
SubTake ==
    /\ Alive
    /\ sub.cpc = "range"
    /\ hints > 0
    /\ hints' = hints - 1
    /\ sub' = [sub EXCEPT !.cpc = "load", !.owed = FALSE,
                          !.dropOwed = FALSE,
                          !.servedDrop = @ \/ sub.dropOwed]
    /\ UNCHANGED <<kern, adm, gauge, dpVars, env, cfg, pc, draining, waited,
                   gsLog, lst, lsPc, al, alWarned, ms, wg, store, conn,
                   probe, sn, secStore, mgr, clock, calls, audit, reload,
                   last>>

\* consumeRedisUpdates: LoadSecurityConfig (reads in `failed` return an
\* error) and applySnapshot, then back to the range. `lateLoad` says a load
\* was sent to a store client that had been closed.
SubReload(failed) ==
    /\ Alive
    /\ sub.cpc = "load"
    /\ mgr' = applySnapshot(mgr, LoadSecurityConfig(secStore, failed), clock)
    /\ sub' = [sub EXCEPT !.cpc = "range",
                          !.lateLoad = @ \/ store # "open"]
    /\ UNCHANGED <<kern, adm, gauge, dpVars, env, cfg, pc, draining, waited,
                   gsLog, lst, lsPc, al, alWarned, ms, wg, store, conn,
                   probe, sn, secStore, hints, clock, calls, audit, reload,
                   last>>

InitHints ==
    /\ Serving
    /\ secStore \in AdmitStores
    /\ mgr = NewManager(secStore, FALSE, 0)
    /\ hints = 0
    /\ clock = 0
    /\ calls = <<>>
    /\ audit = <<>>
    /\ reload = [n |-> 0, store |-> secStore, failed |-> {},
                 before |-> mgr, after |-> mgr]
    /\ last = NoCall
    /\ swap = SwapIdle
    /\ cx = CxIdle
    /\ sockPairMap = {}
    /\ kern = KernIdle
    /\ sub = [phase |-> "run", lpc |-> "range", cpc |-> "range",
              owed |-> FALSE, dropOwed |-> FALSE, servedDrop |-> FALSE,
              malformed |-> FALSE, lateLoad |-> FALSE]
    /\ adm = AdmIdle
    /\ gauge = GaugeZero

NextHints ==
    \/ SubReceive
    \/ SubReceiveMalformed
    \/ SubSend
    \/ SubTake
    \/ \E failed \in FailSets : SubReload(failed)

\* both goroutines run when they can; when a message arrives is up to the
\* publisher
FairHints ==
    /\ WF_vars(SubSend)
    /\ WF_vars(SubTake)
    /\ WF_vars(\E failed \in FailSets : SubReload(failed))

SpecHints == InitHints /\ [][NextHints]_vars /\ FairHints

\* ---------------------------------------------------------------------
\* shutdown with the tasks of the store and of the policy engine
\* ---------------------------------------------------------------------
\* listenUpdates: RedisStore.Close has closed the subscription, the range
\* over its channel ends and the goroutine returns
SubListenerEnd ==
    /\ Alive
    /\ store = "closed"
    /\ sub.lpc = "range"
    /\ sub' = [sub EXCEPT !.lpc = "ended"]
    /\ UNCHANGED <<kern, adm, gauge, dpVars, env, cfg, pc, draining, waited,
                   gsLog, lst, lsPc, al, alWarned, ms, wg, store, conn,
                   probe, sn, polVars>>

\* a hint arrives while none is waiting
ShutReceive ==
    /\ hints < MaxReloads
    /\ ~sub.owed
    /\ SubReceive

\* main has called Server.Start and waits for a signal; NewRedisStore and
\* NewManager have started listenUpdates and consumeRedisUpdates
InitShutdown ==
    /\ env = [redisEnabled |-> TRUE, reachable |-> TRUE, keyExists |-> TRUE,
              hash |-> BusinessFields, metricsEnabled |-> TRUE]
    /\ LET b == LoadBusinessConfig(env, 0)
       IN  cfg = [LoadConfig(env) EXCEPT !.listenAddr = b.listenAddr,
                                         !.httpURL = b.httpURL,
                                         !.tcpAddr = b.tcpAddr]
    /\ pc = "serving"
    /\ draining = 0
    /\ waited = 0
    /\ gsLog = <<>>
    /\ lst = "nil"
    /\ lsPc = "spawned"
    /\ al = "none"
    /\ alWarned = FALSE
    /\ ms = "spawned"
    /\ wg = 2
    /\ store = "open"
    /\ conn = [c \in Conns |-> IdleConn]
    /\ probe = NoProbe
    /\ sn = SnIdle
    /\ secStore = EmptySecStore
    /\ mgr = NewManager(secStore, FALSE, 0)
    /\ hints = 0
    /\ clock = 0
    /\ calls = <<>>
    /\ audit = <<>>
    /\ reload = [n |-> 0, store |-> secStore, failed |-> {},
                 before |-> mgr, after |-> mgr]
    /\ last = NoCall
    /\ swap = SwapIdle
    /\ cx = CxIdle
    /\ sockPairMap = {}
    /\ kern = KernIdle
    /\ sub = [phase |-> "run", lpc |-> "range", cpc |-> "range",
              owed |-> FALSE, dropOwed |-> FALSE, servedDrop |-> FALSE,
              malformed |-> FALSE, lateLoad |-> FALSE]
    /\ adm = AdmIdle
    /\ gauge = GaugeZero

\* s.redisStore.Close(), the last call GracefulShutdown makes
ShutCloseStore ==
    /\ pc = "gs_close"
    /\ store' = IF store # "nil" THEN "closed" ELSE store
    /\ gsLog' = Append(gsLog, "close_store")
    /\ pc' = "gs_return"
    /\ UNCHANGED <<extVars, dpVars, polVars, env, cfg, draining, waited, lst,
                   lsPc, al, alWarned, ms, wg, conn, probe, sn>>

\* GracefulShutdown returns, and main after it
ShutReturn ==
    /\ pc = "gs_return"
    /\ pc' = "exit0"
    /\ UNCHANGED <<extVars, dpVars, polVars, env, cfg, draining, waited,
                   gsLog, lst, lsPc, al, alWarned, ms, wg, store, conn,
                   probe, sn>>

NextShutdown ==
    \/ MetricsListen
    \/ MetricsReturn
    \/ ListenerStart
    \/ AcceptTemporaryError
    \/ AcceptPermanentError
    \/ AcceptClosedError
    \/ GS_MarkDraining
    \/ GS_K8sWait
    \/ GS_StopListener
    \/ GS_DrainWait
    \/ GS_ShutdownMetrics
    \/ GS_Join
    \/ ShutCloseStore
    \/ ShutReturn
    \/ ShutReceive
    \/ SubSend
    \/ SubTake
    \/ \E failed \in FailSets : SubReload(failed)
    \/ SubListenerEnd

SpecShutdown == InitShutdown /\ [][NextShutdown]_vars

\* ---------------------------------------------------------------------
\* the admin API: one POST to a WAF endpoint, lock by lock
\* ---------------------------------------------------------------------
AdminEndpoints == {"/admin/security/waf/ips", "/admin/security/waf/patterns"}

\* the action field of the request body; the last one is not an action
AdminActions == {"add", "remove", "replace"}

\* the members a request names, by endpoint
AdminItems(endpoint) ==
    IF endpoint = "/admin/security/waf/ips"
    THEN SUBSET ClientIPs
    ELSE SUBSET {"(?i)(union.*select)", "items"}

\* the list after the action: add appends what is missing, remove filters
AdminApply(old, action, items) ==
    IF action = "add" THEN old \cup items ELSE old \ items

\* handleWAFIPs / handleWAFPatterns: the body is decoded and a.mu.Lock()
\* taken, with the unlock deferred
AdmRequest(endpoint, action) ==
    /\ adm.phase = "api"
    /\ adm.pc = "idle"
    /\ adm.mu = "free"
    /\ \E items \in AdminItems(endpoint) :
         adm' = [adm EXCEPT !.pc = "locked", !.mu = "handler",
                            !.req = [endpoint |-> endpoint,
                                     action |-> action, items |-> items]]
    /\ UNCHANGED <<kern, sub, gauge, dpVars, env, cfg, pc, draining, waited,
                   gsLog, lst, lsPc, al, alWarned, ms, wg, store, conn,
                   probe, sn, polVars>>

\* the switch on the action. Without a store the list of the config is
\* rewritten, the engine updated and 200 answered; with a store the key is
\* updated (500 when that fails) and read back, and setBlockedIPs or
\* setBlockedPatterns is called; any other action is answered with 400.
\* Every return runs the deferred unlock.
AdmSwitch(storeFails) ==
    /\ adm.phase = "api"
    /\ adm.pc = "locked"
    /\ LET ips == adm.req.endpoint = "/admin/security/waf/ips"
           key == IF ips THEN "ips" ELSE "patterns"
       IN  IF adm.req.action \notin {"add", "remove"}
           THEN /\ adm' = [adm EXCEPT !.pc = "responded", !.mu = "free",
                                      !.status = 400]
                /\ mgr' = mgr
           ELSE IF ~adm.hasStore
           THEN LET new == AdminApply(adm.cfgList[key], adm.req.action,
                                      adm.req.items)
                IN  /\ adm' = [adm EXCEPT !.pc = "responded", !.mu = "free",
                                          !.status = 200,
                                          !.cfgList[key] = new]
                    /\ mgr' = IF ips THEN UpdateBlockedIPs(mgr, new)
                              ELSE UpdateBlockedPatterns(mgr, new)
           ELSE IF storeFails /\ adm.req.items # {}
           THEN /\ adm' = [adm EXCEPT !.pc = "responded", !.mu = "free",
                                      !.status = 500]
                /\ mgr' = mgr
           ELSE /\ adm' = [adm EXCEPT
                             !.pc = "set",
                             !.redis[key] = AdminApply(@, adm.req.action,
                                                       adm.req.items)]
                /\ mgr' = mgr
    /\ UNCHANGED <<kern, sub, gauge, dpVars, env, cfg, pc, draining, waited,
                   gsLog, lst, lsPc, al, alWarned, ms, wg, store, conn,
                   probe, sn, secStore, hints, clock, calls, audit, reload,
                   last>>

\* setBlockedIPs / setBlockedPatterns, called by the handler: a.mu.Lock(),
\* the list of the config, a.mu.Unlock(), then the update of the engine;
\* the handler answers 200 after it. sync.RWMutex is not reentrant: a
\* Lock on a mutex that is held parks the goroutine until an Unlock.
AdmSetBlocked ==
    /\ adm.phase = "api"
    /\ adm.pc = "set"
    /\ LET ips == adm.req.endpoint = "/admin/security/waf/ips"
           key == IF ips THEN "ips" ELSE "patterns"
       IN  IF adm.mu # "free"
           THEN /\ adm' = [adm EXCEPT !.pc = "parked"]
                /\ mgr' = mgr
           ELSE /\ adm' = [adm EXCEPT !.pc = "responded", !.status = 200,
                                      !.cfgList[key] = adm.redis[key]]
                /\ mgr' = IF ips THEN UpdateBlockedIPs(mgr, adm.redis[key])
                          ELSE UpdateBlockedPatterns(mgr, adm.redis[key])
    /\ UNCHANGED <<kern, sub, gauge, dpVars, env, cfg, pc, draining, waited,
                   gsLog, lst, lsPc, al, alWarned, ms, wg, store, conn,
                   probe, sn, secStore, hints, clock, calls, audit, reload,
                   last>>

InitAdmin ==
    /\ Serving
    /\ secStore \in SecStores
    /\ secStore.rate = RateAbsent
    /\ secStore.authCfg = "absent" /\ secStore.subjects = {}
    /\ secStore.wafCfg = "on"
    /\ mgr = NewManager(secStore, FALSE, 0)
    /\ hints = 0
    /\ clock = 0
    /\ calls = <<>>
    /\ audit = <<>>
    /\ reload = [n |-> 0, store |-> secStore, failed |-> {},
                 before |-> mgr, after |-> mgr]
    /\ last = NoCall
    /\ swap = SwapIdle
    /\ cx = CxIdle
    /\ sockPairMap = {}
    /\ kern = KernIdle
    /\ sub = SubIdle
    /\ \E hasStore \in BOOLEAN :
         adm = [phase |-> "api", hasStore |-> hasStore, pc |-> "idle",
                mu |-> "free", status |-> 0,
                req |-> [endpoint |-> "", action |-> "", items |-> {}],
                cfgList |-> [ips |-> secStore.ips,
                             patterns |-> secStore.patterns],
                redis |-> [ips |-> secStore.ips,
                           patterns |-> secStore.patterns]]
    /\ gauge = GaugeZero

NextAdmin ==
    \/ \E e \in AdminEndpoints, a \in AdminActions : AdmRequest(e, a)
    \/ \E storeFails \in BOOLEAN : AdmSwitch(storeFails)
    \/ AdmSetBlocked

\* the goroutine serving the request runs whenever it can
FairAdmin ==
    /\ WF_vars(\E storeFails \in BOOLEAN : AdmSwitch(storeFails))
    /\ WF_vars(AdmSetBlocked)

SpecAdmin == InitAdmin /\ [][NextAdmin]_vars /\ FairAdmin

\* ---------------------------------------------------------------------
\* the client-to-upstream byte stream of one TCP session, with the kernel
\* ---------------------------------------------------------------------
\* bytes the client sends after the peeked ones
MaxLate == 2

\* the eBPF programs of sockmap.c
SockmapPrograms == {"sockops", "sk_skb/stream_parser", "sk_skb/stream_verdict"}

\* a manager that attaches the stream programs to sock_map as well
AttachedPrograms_WithVerdict(enabled, cgroup) ==
    IF enabled /\ cgroup THEN SockmapPrograms ELSE {}

\* the programs the manager has attached: NewSockMapManager loads the
\* objects and attaches none, AttachToCgroup attaches sock_ops_handler
AttachedPrograms(enabled, cgroup) ==
    IF enabled /\ cgroup THEN {"sockops"} ELSE {}

\* sock_stream_verdict on data arriving at the client socket: it runs when
\* attached, on a socket that sock_ops_handler has put into sock_map, and
\* redirects when sock_pair_map has the socket's cookie
SockStreamVerdict(programs, map) ==
    /\ {"sockops", "sk_skb/stream_verdict"} \subseteq programs
    /\ \E e \in map : e[1] = ClientCookie

\* the client sends its next byte; the byte is numbered by its place in
\* the stream. It is queued on the client socket, or redirected
StClientSend ==
    /\ kern.phase = "stream"
    /\ kern.hpc # "returned"
    /\ Len(kern.sent) < PeekSize + MaxLate
    /\ LET b == Len(kern.sent) + 1
       IN  kern' = IF SockStreamVerdict(
                         AttachedPrograms(kern.ebpf, kern.cgroup),
                         sockPairMap)
                   THEN [kern EXCEPT !.sent = Append(@, b),
                                     !.redirected = Append(@, b)]
                   ELSE [kern EXCEPT
                           !.sent = Append(@, b),
                           !.sockq = Append(@, b),
                           !.late = IF \E e \in sockPairMap :
                                         e[1] = ClientCookie
                                    THEN @ + 1 ELSE @]
    /\ UNCHANGED <<sub, adm, gauge, dpVars, env, cfg, pc, draining, waited,
                   gsLog, lst, lsPc, al, alWarned, ms, wg, store, conn,
                   probe, sn, polVars>>

\* Listener.handleConn: NewSniffConn and Sniff. Peek(5) returns once five
\* bytes are buffered, and the read that completes them moves what the
\* socket holds then, `b` bytes, into the bufio buffer; the bytes are those
\* of the custom protocol and the connection goes to the TCP handler
StSniff ==
    /\ kern.phase = "stream"
    /\ kern.hpc = "accepted"
    /\ Len(kern.sockq) >= PeekSize
    /\ \E b \in PeekSize..Min(Len(kern.sockq), BufSize) :
         kern' = [kern EXCEPT
                    !.hpc = "dispatched",
                    !.buf = SubSeq(kern.sockq, 1, b),
                    !.sockq = SubSeq(kern.sockq, b + 1, Len(kern.sockq))]
    /\ UNCHANGED <<sub, adm, gauge, dpVars, env, cfg, pc, draining, waited,
                   gsLog, lst, lsPc, al, alWarned, ms, wg, store, conn,
                   probe, sn, polVars>>

\* tcp.Handler.Handle up to the start of the copy goroutines: the dial,
\* RegisterSocketPair when acceleration is on, then io.Copy(dst, src)
StHandleStart ==
    /\ kern.phase = "stream"
    /\ kern.hpc = "dispatched"
    /\ \E fail \in IF kern.ebpf THEN RegFailures ELSE {"none"} :
         LET r == RegisterSocketPair(sockPairMap, kern.ebpf, fail)
         IN  /\ sockPairMap' = r.map
             /\ kern' = [kern EXCEPT !.hpc = "session",
                                     !.deferUnregister = kern.ebpf /\ ~r.err]
    /\ UNCHANGED <<sub, adm, gauge, swap, cx, env, cfg, pc, draining, waited,
                   gsLog, lst, lsPc, al, alWarned, ms, wg, store, conn,
                   probe, sn, polVars>>

\* one round of io.Copy(dst, src): SniffConn.Read hands over what the bufio
\* buffer holds, or with an empty buffer what the socket holds, and the
\* bytes are written to the upstream socket
StCopyUp ==
    /\ kern.phase = "stream"
    /\ kern.hpc = "session"
    /\ kern.buf # <<>> \/ kern.sockq # <<>>
    /\ kern' = IF kern.buf # <<>>
               THEN [kern EXCEPT !.upstream = @ \o kern.buf, !.buf = <<>>]
               ELSE [kern EXCEPT !.upstream = @ \o kern.sockq,
                                 !.sockq = <<>>]
    /\ UNCHANGED <<sub, adm, gauge, dpVars, env, cfg, pc, draining, waited,
                   gsLog, lst, lsPc, al, alWarned, ms, wg, store, conn,
                   probe, sn, polVars>>

\* Handle returns after one side has closed: the deferred
\* UnregisterSocketPair when it was deferred, and the two closes
StHandleReturn ==
    /\ kern.phase = "stream"
    /\ kern.hpc = "session"
    /\ sockPairMap' = IF kern.deferUnregister
                      THEN UnregisterSocketPair(sockPairMap, kern.ebpf)
                      ELSE sockPairMap
    /\ kern' = [kern EXCEPT !.hpc = "returned"]
    /\ UNCHANGED <<sub, adm, gauge, swap, cx, env, cfg, pc, draining, waited,
                   gsLog, lst, lsPc, al, alWarned, ms, wg, store, conn,
                   probe, sn, polVars>>

InitRedirect ==
    /\ Serving
    /\ secStore = EmptySecStore
    /\ mgr = NewManager(secStore, FALSE, 0)
    /\ hints = 0
    /\ clock = 0
    /\ calls = <<>>
    /\ audit = <<>>
    /\ reload = [n |-> 0, store |-> secStore, failed |-> {},
                 before |-> mgr, after |-> mgr]
    /\ last = NoCall
    /\ swap = SwapIdle
    /\ cx = CxIdle
    /\ sockPairMap = {}
    /\ \E o \in SetupOutcomes, attachFails \in BOOLEAN :
         LET h == TcpNewHandler(TRUE, o, attachFails)
         IN  kern = [phase |-> "stream", ebpf |-> h.ebpfEnabled,
                     cgroup |-> h.attached, hpc |-> "accepted",
                     deferUnregister |-> FALSE, late |-> 0,
                     sent |-> <<>>, sockq |-> <<>>, buf |-> <<>>,
                     upstream |-> <<>>, redirected |-> <<>>]
    /\ sub = SubIdle
    /\ adm = AdmIdle
    /\ gauge = GaugeZero

NextRedirect ==
    \/ StClientSend
    \/ StSniff
    \/ StHandleStart
    \/ StCopyUp
    \/ StHandleReturn

SpecRedirect == InitRedirect /\ [][NextRedirect]_vars

\* ---------------------------------------------------------------------
\* Properties
\* ---------------------------------------------------------------------
GSOrder == <<"mark_draining", "k8s_wait", "stop_listener", "drain_wait",
             "shutdown_metrics", "join", "close_store">>

AfterBothWaits == pc \in {"gs_metrics", "gs_join", "gs_close", "exit0"}

StoreConfigured == cfg.redisEnabled /\ store # "nil"

\* C1 (as stated): from the moment the draining flag is set, no accepted
\* connection is handed to a new handleConn task.
C1_NoTaskOnceDraining ==
    \A c \in Conns : conn[c].acceptedWhen # "draining"

\* C1 (amended): no connection task is spawned once Listener.Stop has closed
\* the listener; every task was accepted while the listener was open, be it
\* before the flag was set or during the k8s wait that follows it.
C1_NoTaskAfterListenerClosed ==
    \A c \in Conns : conn[c].acceptedWhen # "stopped"

\* a task accepted while the flag was already 1, seen after the listener
\* has been closed
C1_Witness ==
    /\ lst = "closed"
    /\ \E c \in Conns : conn[c].acceptedWhen = "draining"

\* C2: the draining flag is monotonic: once it is 1 no step of the server
\* sets it back, and a process that has ended stays ended.
C2_DrainingMonotonic ==
    [][/\ (draining = 1 => draining' = 1)
       /\ (pc \in {"exit0", "exit1", "crash"} => pc' = pc)]_vars

\* the flag is still 1 after the whole shutdown sequence has run
C2_Witness == pc = "exit0" /\ draining = 1 /\ Len(gsLog) = Len(GSOrder)

\* C3: /ready answers 200 iff the flag is 0 and the store is unconfigured or
\* healthy; flag 1 gives 503 "Draining" whatever the store's health; flag 0
\* with a failing store probe gives 503 "Redis Unavailable"; /health is 200.
C3_ReadinessComposition ==
    probe.served =>
      /\ (probe.ready.code = 200 <=>
            (probe.flag = 0 /\ (~StoreConfigured \/ probe.healthy)))
      /\ (probe.flag = 1 =>
            probe.ready = [code |-> 503, body |-> "Draining"])
      /\ (probe.flag = 0 /\ StoreConfigured /\ ~probe.healthy =>
            probe.ready = [code |-> 503, body |-> "Redis Unavailable"])
      /\ probe.health.code = 200

\* a probe answered while draining with an unhealthy store
C3_Witness ==
    /\ probe.served
    /\ probe.flag = 1
    /\ ~probe.healthy
    /\ probe.ready.body = "Draining"

\* C4: with a complete business configuration, /ready never answers 200
\* while the business listener failed to start (bind error) or the accept
\* loop has exited after a permanent Accept error.
C4_ReadyImpliesListening ==
    (/\ env.hash = BusinessFields
     /\ ms = "serving"
     /\ readyHandler(draining, cfg.redisEnabled, store # "nil", TRUE).code = 200)
    => ~(lsPc = "failed" \/ al = "exited_error")

C6_ShutdownOrder ==
    /\ Len(gsLog) <= Len(GSOrder)
    /\ gsLog = SubSeq(GSOrder, 1, Len(gsLog))
    /\ (draining = 1 <=> Len(gsLog) >= 1)
    /\ (lst = "closed" => Len(gsLog) >= 3)
    /\ (ms \in {"closing", "stopped"} => Len(gsLog) >= 5)
    /\ (store = "closed" => Len(gsLog) = 7 /\ wg = 0)

\* the whole sequence has run with a metrics server that was serving
C6_Witness ==
    /\ pc = "exit0"
    /\ gsLog = GSOrder
    /\ ms = "stopped"
    /\ store = "closed"

C8_FatalOnUnusableConfig ==
    (\/ ~env.redisEnabled
     \/ ~env.reachable
     \/ ~env.keyExists
     \/ env.hash # BusinessFields)
    => (pc \in {"init", "exit1"} /\ lst = "nil")

\* C9: once startup has succeeded the process ends only through a completed
\* graceful shutdown; a failure in a connection task leaves it running.
C9_OnlyShutdownEndsProcess ==
    (pc \in {"exit0", "exit1", "crash"}) =>
       \/ (pc = "exit1" /\ lsPc = "none")
       \/ (pc = "exit0" /\ gsLog = GSOrder)

\* the byte-prefix classifier of the protocol description
HasPrefix(bytes, w) == Len(bytes) >= Len(w) /\ SubSeq(bytes, 1, Len(w)) = w

ReferenceClassify(bytes) ==
    IF \E w \in {StrGET, StrPOST, StrPUT, StrDELE, StrHEAD, StrHTTP} :
          HasPrefix(bytes, w)
    THEN ProtocolHTTP
    ELSE IF bytes[1] = TLSHandshake THEN ProtocolTLS
    ELSE ProtocolTCP

\* C10: for a connection with five or more bytes available, Sniff returns
\* what the reference classifier returns on the same bytes, and a
\* connection classified Http goes to the HTTP handler.
C10_SniffAgreesWithReference ==
    (sn.phase = "dispatched" /\ sn.avail >= PeekSize) =>
       /\ sn.proto = ReferenceClassify(sn.peeked)
       /\ (ReferenceClassify(sn.peeked) = ProtocolHTTP /\ HttpHandlerPresent
             => sn.handler = "http")

\* bytes of the followed connection that arrived before the peek deadline
Arrived == Min(sn.avail, Len(sn.stream))

\* C11: Sniff returns Unknown only when fewer than 2 bytes arrived before
\* the peek deadline; a connection that delivered 2, 3 or 4 bytes and then
\* stalled or was cut is classified from those bytes, so that the prefix
\* "GET " goes to the HTTP handler.
C11_UnknownOnlyBelowTwoBytes ==
    sn.phase = "dispatched" =>
      /\ (sn.proto = ProtocolUnknown => Arrived < MinSniffLen)
      /\ (Arrived = 4 /\ sn.peeked = StrGET /\ HttpHandlerPresent
            => sn.handler = "http")

C13_ReadsDeliverStream ==
    sn.phase = "dispatched" =>
      LET sent == Sent(sn.stream, sn.avail, sn.end)
      IN  /\ sn.out \o sn.buf \o SubSeq(sent, sn.pos + 1, Len(sent)) = sent
          /\ (sn.eof => sn.out = sent)

\* a stream longer than the peek has been read to its end in three or more
\* Reads, the first of them smaller than the peeked prefix
C13_Witness ==
    /\ sn.phase = "dispatched"
    /\ sn.eof
    /\ sn.reads >= 3
    /\ Len(sn.out) > PeekSize
    /\ sn.out = sn.stream

\* the latest connection that went through connection admission
LastCall == calls[Len(calls)]

ErrRateLimit == <<"rate limit exceeded">>

ErrBlockedIP(ip) == <<"blocked IP", ip>>

\* C14 (as stated): whenever the remote IP is in the deny list the call
\* returns the blocked-IP deny and leaves the bucket alone.
C14_DenyListBeforeLimiter ==
    (last.id > 0 /\ last.listed) =>
      /\ LastCall.err = ErrBlockedIP(LastCall.ip)
      /\ last.limAfter = last.limBefore

\* C14 (amended): whenever the WAF flag is on and the remote IP is in the
\* deny list the call returns the blocked-IP deny and the limiter is left
\* as it was; the limiter changes only in calls that passed the IP check
\* and were admitted. With the WAF flag off the deny list is not consulted.
C14_DenyListBeforeLimiterWhenWafOn ==
    last.id > 0 =>
      /\ (last.waf /\ last.listed =>
            /\ LastCall.err = ErrBlockedIP(LastCall.ip)
            /\ last.limAfter = last.limBefore)
      /\ (last.limAfter # last.limBefore =>
            /\ ~(last.waf /\ last.listed)
            /\ LastCall.err = ErrNil)
      /\ (~last.waf => LastCall.err \in {ErrNil, ErrRateLimit})

\* a listed IP was refused while the bucket held a whole token
C14_Witness ==
    /\ last.id > 0
    /\ last.waf
    /\ last.listed
    /\ last.limBefore.on
    /\ last.avail >= TicksPerSecond
    /\ LastCall.err = ErrBlockedIP(LastCall.ip)

\* deny lines of the TCP audit trail that belong to connection i
DenyLines(i) ==
    {k \in 1..Len(audit) : /\ audit[k].conn = i
                           /\ audit[k].protocol = "tcp"
                           /\ audit[k].action = "deny"}

\* C15 (as stated): a connection refused at admission is closed without
\* being sniffed or dialed and leaves exactly one TCP deny record whose
\* detail is the deny reason.
C15_RejectedClosedAndAudited ==
    \A i \in 1..Len(calls) :
      calls[i].err # ErrNil =>
        /\ (i = last.id => ~last.sniffed /\ last.next = "closed")
        /\ Cardinality(DenyLines(i)) = 1
        /\ \A k \in DenyLines(i) : audit[k].detail = calls[i].err

\* C15 (amended): a connection refused at admission is closed without being
\* sniffed or dialed and leaves at most one TCP deny record: exactly one,
\* with the deny reason as detail, when audit logging is enabled and the
\* sink took the write, and none otherwise.
C15_RejectedClosedAndAuditedIfEnabled ==
    \A i \in 1..Len(calls) :
      /\ (calls[i].err = ErrNil => DenyLines(i) = {})
      /\ (calls[i].err # ErrNil =>
            /\ Cardinality(DenyLines(i)) <= 1
            /\ (~mgr.auditEnabled => DenyLines(i) = {})
            /\ \A k \in DenyLines(i) : audit[k].detail = calls[i].err
            /\ (i = last.id =>
                  /\ ~last.sniffed
                  /\ last.next = "closed"
                  /\ Cardinality(DenyLines(i)) =
                       IF mgr.auditEnabled /\ last.written THEN 1 ELSE 0))

\* a connection refused by the rate limiter has left its deny record
C15_Witness ==
    /\ last.id > 0
    /\ LastCall.err = ErrRateLimit
    /\ mgr.auditEnabled
    /\ Cardinality(DenyLines(last.id)) = 1

\* connections i..j that the rate limiter let through
Admitted(i, j) == {k \in i..j : calls[k].err = ErrNil}

\* C16: with the store's rps and burst unchanged, in every window of T
\* seconds the limiter admits at most burst + T * rps connections, reloads
\* included.
C16_WindowBound ==
    mgr.limiter.on =>
      \A i \in 1..Len(calls) : \A j \in i..Len(calls) :
        Cardinality(Admitted(i, j)) * TicksPerSecond
          <= mgr.limiter.burst * TicksPerSecond
               + (calls[j].t - calls[i].t) * mgr.limiter.rps

\* C17: a call that reaches the limiter is admitted iff the bucket holds a
\* whole token; an admission takes exactly one token and a refusal none and
\* reports "rate limit exceeded". With rps = 1 and burst = 1, of the first
\* three connections, opened within one second, only the first is admitted.
C17_TokenBucketAdmission ==
    /\ (last.id > 0 /\ last.limBefore.on /\ ~(last.waf /\ last.listed)) =>
         /\ (LastCall.err = ErrNil <=> last.avail >= TicksPerSecond)
         /\ (LastCall.err = ErrNil =>
               last.limAfter.tokens = last.avail - TicksPerSecond)
         /\ (LastCall.err # ErrNil =>
               /\ LastCall.err = ErrRateLimit
               /\ last.limAfter = last.limBefore)
    /\ (/\ Len(calls) = 3
        /\ \A i \in 1..3 : /\ calls[i].gen = 0
                           /\ calls[i].err \in {ErrNil, ErrRateLimit}
        /\ mgr.limiter.on /\ mgr.limiter.rps = 1 /\ mgr.limiter.burst = 1
        /\ calls[3].t - calls[1].t < TicksPerSecond)
       => /\ calls[1].err = ErrNil
          /\ calls[2].err = ErrRateLimit
          /\ calls[3].err = ErrRateLimit

\* three connections within one second at rps = 1, burst = 1: the second
\* came half a second after the first, with half a token in the bucket
C17_Witness ==
    /\ Len(calls) = 3
    /\ mgr.limiter.on /\ mgr.limiter.rps = 1 /\ mgr.limiter.burst = 1
    /\ \A i \in 1..3 : calls[i].gen = 0
    /\ calls[2].t > calls[1].t
    /\ calls[3].t - calls[1].t < TicksPerSecond
    /\ calls[1].err = ErrNil
    /\ calls[2].err = ErrRateLimit
    /\ calls[3].err = ErrRateLimit

\* C18: after a reload whose reads all succeeded, the engine's IP deny set,
\* pattern set and allowed-subject set are the sets the store held at the
\* reload, a set that has become empty included, and the data path decides
\* against them.
C18_ReloadInstallsStoreSets ==
    (reload.n >= 1 /\ reload.failed = {}) =>
      /\ reload.after.blockedIPs = reload.store.ips
      /\ reload.after.blockedPatterns = reload.store.patterns
      /\ reload.after.allowedSubjects = reload.store.subjects
      /\ mgr.blockedIPs = reload.after.blockedIPs
      /\ mgr.blockedPatterns = reload.after.blockedPatterns
      /\ mgr.allowedSubjects = reload.after.allowedSubjects

\* the rate limit the store asks for: none when the key is absent, when
\* enabled is false, or when rps or burst is not positive
StoreRateLimit(st) ==
    IF st.rate.present /\ st.rate.enabled /\ st.rate.rps > 0
                       /\ st.rate.burst > 0
    THEN [on |-> TRUE, rps |-> st.rate.rps, burst |-> st.rate.burst]
    ELSE [on |-> FALSE, rps |-> 0, burst |-> 0]

\* the rate limit in effect in CheckConnection
EffectiveRateLimit(m) ==
    [on |-> m.limiter.on, rps |-> m.limiter.rps, burst |-> m.limiter.burst]

\* C19: after the load at startup and after every reload whose reads all
\* succeeded, the rate limit in effect and the auth and WAF flags are those
\* of the store, a missing key meaning rate limit off, auth off, WAF off.
C19_EffectiveSettingsFollowStore ==
    reload.failed = {} =>
      /\ EffectiveRateLimit(reload.after) = StoreRateLimit(reload.store)
      /\ reload.after.authEnabled = (reload.store.authCfg = "on")
      /\ reload.after.wafEnabled = (reload.store.wafCfg = "on")

\* C20: a reload during which every read from the store failed leaves the
\* IP deny set, the pattern set, the allowed subjects and the rate limit
\* (rps, burst, enabled) as they were, and the process keeps running.
C20_FailedReloadKeepsPolicy ==
    (reload.n >= 1 /\ reload.failed = SecKeys) =>
      /\ reload.after.blockedIPs = reload.before.blockedIPs
      /\ reload.after.blockedPatterns = reload.before.blockedPatterns
      /\ reload.after.allowedSubjects = reload.before.allowedSubjects
      /\ EffectiveRateLimit(reload.after) = EffectiveRateLimit(reload.before)
      /\ Alive

\* the engine after the first k connections of `calls`, had it served them
\* from the policy loaded at startup with no reload in between
RECURSIVE WithoutReload(_)
WithoutReload(k) ==
    IF k = 0
    THEN NewManager(secStore, mgr.auditEnabled, 0)
    ELSE CheckConnection(WithoutReload(k - 1), calls[k].ip, calls[k].t).m

\* C21: with the store's policy unchanged, a sequence of connection
\* admissions with reloads inserted gets the decisions the same sequence
\* gets without them.
C21_ReloadOfSamePolicyKeepsDecisions ==
    \A k \in 1..Len(calls) :
      calls[k].err =
        CheckConnection(WithoutReload(k - 1), calls[k].ip, calls[k].t).err

\* C22: a decision that reads the deny set and then the limiter (or the
\* pattern set) has read both from one policy version: the one before the
\* reload or the one after it.
C22_DecisionSeesOnePolicyVersion ==
    (swap.on /\ swap.cpc = "done" /\ swap.second) =>
      \E v \in {reload.before, reload.after} :
        /\ swap.ipsSeen = v.blockedIPs
        /\ swap.kind = "CheckConnection" =>
             swap.limSeen = EffectiveRateLimit(v)
        /\ swap.kind = "ApplyWAF" => swap.patternsSeen = v.blockedPatterns

\* the subject of a request: the subject of the peer certificate when the
\* request carries one, else the value of the configured header
RequestSubject(req) ==
    IF req.certs # <<>> /\ req.certs[1] # "" THEN req.certs[1]
    ELSE req.header

DenyRecords(lines) == {k \in 1..Len(lines) : lines[k].action = "deny"}

\* the handler has run on at least one request of the connection
Served == cx.phase \in {"http", "hijacked", "closed"} /\ cx.reqs > 0

\* C24 (as stated): the handler calls AuthorizeHTTP first and ApplyWAF
\* second; a request that either denies is answered 401 (auth) or 403
\* (WAF), leaves exactly one deny record and never reaches the upstream.
C24_DenyAnsweredAuditedNotProxied ==
    Served =>
      /\ cx.policyCalls \in {<<"AuthorizeHTTP">>,
                              <<"AuthorizeHTTP", "ApplyWAF">>}
      /\ cx.authErr # ErrNil =>
           /\ cx.status = 401
           /\ Cardinality(DenyRecords(cx.lines)) = 1
           /\ ~cx.proxiedNow
      /\ cx.wafErr # ErrNil =>
           /\ cx.status = 403
           /\ Cardinality(DenyRecords(cx.lines)) = 1
           /\ ~cx.proxiedNow

\* C24 (amended): the handler calls AuthorizeHTTP first and ApplyWAF only
\* when AuthorizeHTTP returned nil; a request that either denies is
\* answered 401 (auth) or 403 (WAF) and never reaches the upstream, and it
\* leaves one deny record carrying that status and the deny reason when
\* audit logging is enabled and the sink took the write, and none
\* otherwise; a request neither denies goes to the upstream once and
\* leaves no deny record.
C24_DenyAnsweredNotProxiedAuditedIfEnabled ==
    Served =>
      LET denyErr == IF cx.authErr # ErrNil THEN cx.authErr ELSE cx.wafErr
          expected == IF mgr.auditEnabled /\ cx.written THEN 1 ELSE 0
      IN  /\ cx.policyCalls = IF cx.authErr # ErrNil
                              THEN <<"AuthorizeHTTP">>
                              ELSE <<"AuthorizeHTTP", "ApplyWAF">>
          /\ cx.authErr # ErrNil => cx.status = 401
          /\ cx.wafErr # ErrNil => cx.status = 403
          /\ denyErr # ErrNil =>
               /\ ~cx.proxiedNow
               /\ Len(cx.lines) = expected
               /\ \A k \in 1..Len(cx.lines) :
                    /\ cx.lines[k].action = "deny"
                    /\ cx.lines[k].status = cx.status
                    /\ cx.lines[k].detail = denyErr
          /\ denyErr = ErrNil =>
               /\ cx.proxiedNow
               /\ cx.status \notin {401, 403}
               /\ DenyRecords(cx.lines) = {}
          /\ cx.proxied + cx.denies = cx.reqs

\* a request the WAF refused on its query: 403, one deny record, the
\* upstream untouched
C24_Witness ==
    /\ Served
    /\ cx.reqs = 1
    /\ cx.authErr = ErrNil
    /\ cx.wafErr = <<"blocked by pattern", "(?i)(union.*select)">>
    /\ cx.status = 403
    /\ Cardinality(DenyRecords(cx.lines)) = 1
    /\ cx.proxied = 0

\* C25: the handler serves one exchange per sniffed connection: no second
\* request is read from it, and after an exchange that was not an upgrade
\* the connection is closed.
C25_OneExchangePerConnection ==
    /\ cx.phase \in {"http", "hijacked", "closed"} => cx.reqs <= 1
    /\ (Served /\ cx.status # 101) => cx.phase = "closed"

\* deny records of the audit trail that belong to the connection
DenyAuditCount ==
    Cardinality({k \in 1..Len(audit) : /\ audit[k].conn = ConnId
                                       /\ audit[k].action = "deny"})

\* the connection was refused by CheckConnection
AdmissionDenied == Len(calls) >= ConnId /\ calls[ConnId].err # ErrNil

\* deny outcomes the policy engine returned for the connection
PolicyDenyOutcomes == (IF AdmissionDenied THEN 1 ELSE 0) + cx.denies

\* the upstream dial of the connection's TCP session failed
DialFailed == cx.hpc = "returned" /\ ~cx.dialed

\* C26 (as stated): over the connection's lifetime the number of deny
\* records equals the number of deny outcomes of CheckConnection,
\* AuthorizeHTTP and ApplyWAF.
C26_DenyRecordsEqualPolicyDenies ==
    cx.phase \in {"new", "http", "hijacked", "tcp", "closed"} =>
      DenyAuditCount = PolicyDenyOutcomes

\* C26 (amended): with audit logging disabled the connection leaves no
\* deny record; with audit logging enabled the number of its deny records
\* is the number of deny outcomes of the policy engine, plus one when the
\* upstream dial of its TCP session failed, less the writes the sink did
\* not take.
C26_DenyRecordsFollowDeniesAndDialFailure ==
    cx.phase \in {"new", "http", "hijacked", "tcp", "closed"} =>
      LET due == PolicyDenyOutcomes + (IF DialFailed THEN 1 ELSE 0)
          lost == cx.lostWrites
                    + (IF AdmissionDenied /\ ~last.written THEN 1 ELSE 0)
      IN  DenyAuditCount = IF mgr.auditEnabled THEN due - lost ELSE 0

\* two requests of one connection were denied, one by AuthorizeHTTP and
\* one by ApplyWAF, and each has left its deny record
C26_Witness ==
    /\ Served
    /\ cx.reqs = 2
    /\ cx.denies = 2
    /\ cx.wafErr # ErrNil
    /\ \E k \in 1..Len(audit) : audit[k].status = 401
    /\ DenyAuditCount = 2

\* deny records the TCP handler wrote for the connection's upstream
DialDenyRecords ==
    {k \in 1..Len(audit) : /\ audit[k].conn = ConnId
                           /\ audit[k].protocol = "tcp"
                           /\ audit[k].backend = BackendAddr
                           /\ audit[k].action = "deny"}

\* what a failed dial leaves apart from the audit record: the client
\* closed, the failure metric alone, no copy goroutine, no channel
\* traffic, an empty pair map, one dial
DialFailureCleanup ==
    /\ ~cx.srcOpen
    /\ ~cx.dstOpen
    /\ cx.metrics = <<"connection_failed">>
    /\ cx.up.st = "idle" /\ cx.down.st = "idle"
    /\ cx.bytesChan = <<>> /\ cx.errChan = <<>>
    /\ sockPairMap = {}
    /\ ~cx.registered
    /\ cx.dials = 1

\* C27 (as stated): a failed upstream dial closes the client, writes a TCP
\* deny record, records connection_failed, starts no copy loop, inserts no
\* map entry and is not retried.
C27_DialFailureClosesAuditsAndStops ==
    DialFailed =>
      /\ DialFailureCleanup
      /\ Cardinality(DialDenyRecords) = 1

\* C27 (amended): as stated, except that the TCP deny record is written
\* when audit logging is enabled and the sink took the write, and not
\* otherwise.
C27_DialFailureClosesAndStopsAuditsIfEnabled ==
    /\ DialFailed =>
         /\ DialFailureCleanup
         /\ Cardinality(DialDenyRecords) =
              IF mgr.auditEnabled /\ cx.written THEN 1 ELSE 0
         /\ \A k \in DialDenyRecords : audit[k].detail = <<"dial error">>
    /\ ~DialFailed => DialDenyRecords = {}

\* a dial failed with acceleration and audit logging on: the deny record
\* is there and the pair map is empty
C27_Witness ==
    /\ DialFailed
    /\ cx.ebpf
    /\ mgr.auditEnabled
    /\ Cardinality(DialDenyRecords) = 1
    /\ cx.metrics = <<"connection_failed">>
    /\ sockPairMap = {}

\* Handle has returned from a session whose dial succeeded
SessionEnded == cx.hpc = "returned" /\ cx.dialed

\* a copy goroutine that cannot take its next step: inside io.Copy on open
\* sockets, or at a send on a full channel
Blocked(dir) ==
    \/ cx[dir].st = "copying" /\ cx.srcOpen /\ cx.dstOpen
    \/ cx[dir].st = "copied" /\ Len(cx.bytesChan) >= ChanCap
    \/ cx[dir].st = "sent" /\ Len(cx.errChan) >= ChanCap

\* both copy goroutines have run to their end and both sockets are closed
SpliceOver ==
    /\ ~cx.srcOpen /\ ~cx.dstOpen
    /\ cx.up.st = "done" /\ cx.down.st = "done"

\* C28: once a copy direction has returned, both sockets get closed and
\* both copy goroutines terminate; after the session has ended both
\* sockets are closed and no copy goroutine is blocked on a channel send
\* or on a socket.
C28_SpliceEndsBothDirections ==
    /\ [](SessionEnded =>
            /\ ~cx.srcOpen /\ ~cx.dstOpen
            /\ \A dir \in Dirs : ~Blocked(dir))
    /\ (cx.phase = "tcp" /\ \E dir \in Dirs : cx[dir].st # "copying")
         ~> SpliceOver

\* the session ended on the client's side; the downstream copy returned
\* only after Handle had collected, and its byte count and its error sit
\* in the channels' buffers
C28_Witness ==
    /\ SessionEnded
    /\ SpliceOver
    /\ cx.errChan = <<"down">>
    /\ Len(cx.bytesChan) = 1
    /\ cx.bytesChan[1].out = cx.down.n
    /\ cx.down.n > 0

\* C29: the bytes_in and bytes_out recorded at the end of a session whose
\* dial succeeded are the bytes relayed client->upstream and
\* upstream->client.
C29_RecordedBytesEqualRelayed ==
    SessionEnded =>
      /\ cx.recIn = cx.up.n
      /\ cx.recOut = cx.down.n

\* entries of the pair map keyed by one of the session's sockets
SessionEntries ==
    {e \in sockPairMap : e[1] \in {ClientCookie, BackendCookie}}

\* C30: with acceleration on, the pair map holds both entries while the
\* session is registered, and once Handle has returned -- a failed
\* registration included -- it holds no entry keyed by either socket.
C30_PairMapFollowsSession ==
    cx.phase \in {"tcp", "closed"} /\ cx.ebpf =>
      /\ cx.registered =>
           SessionEntries = {<<ClientCookie, BackendCookie>>,
                             <<BackendCookie, ClientCookie>>}
      /\ cx.hpc = "returned" => SessionEntries = {}

\* C31: whatever the setup of kernel acceleration does - the stub of other
\* platforms, an unsupported kernel, a load error, a failed cgroup
\* attachment, a failed registration of the pair - the gateway keeps
\* running, the TCP handler exists exactly when a backend address is
\* configured, acceleration is on only when the objects were loaded, and a
\* session whose dial succeeded has both userspace copy loops started; a
\* pair is in the map only when acceleration is on.
C31_KernelSetupFailureNotFatal ==
    kern.phase = "ready" =>
      /\ Alive
      /\ kern.handler.present = TcpHandlerPresent
      /\ kern.handler.ebpfEnabled = (kern.outcome = "loaded")
      /\ cx.dialed => /\ cx.up.st # "idle"
                      /\ cx.down.st # "idle"
                      /\ cx.ebpf = kern.handler.ebpfEnabled
      /\ sockPairMap # {} => kern.outcome = "loaded"

\* the objects were loaded, the cgroup attachment failed, the registration
\* of the pair failed, and both copy loops have relayed
C31_Witness ==
    /\ kern.phase = "ready"
    /\ kern.outcome = "loaded"
    /\ kern.attachFails
    /\ cx.phase = "tcp"
    /\ cx.regFail = "first_update"
    /\ cx.up.n = MaxBytes
    /\ cx.down.n = MaxBytes

\* the three ways acceptLoop reacts to an Accept error: it ends on the
\* closed-listener error only when the listener was closed, ends with an
\* error-level log only on an error of the open listener, and a warning
\* leaves it running
AcceptClassified ==
    [][/\ (al = "running" /\ al' = "exited_closed") => lst = "closed"
       /\ (al = "running" /\ al' = "exited_error") => lst = "open"
       /\ (alWarned' # alWarned) => (al' = "running" /\ lst = "open")
       /\ al # "running" => al' = al]_vars

\* C32: the accept loop sorts every Accept error into closed listener (the
\* loop ends, nothing logged at error level), temporary (a warning, the
\* loop goes on) or anything else (an error-level log, the loop ends), and
\* after an error of the last kind the controller proceeds to shutdown.
C32_AcceptErrorsClassifiedAndFatalOnesShutDown ==
    /\ AcceptClassified
    /\ (al = "exited_error") ~> (draining = 1)

\* the patterns of the list that are enforced: not empty, and compiling
ValidPatterns(list) == {p \in list : p # "" /\ Compiles(p)}

C34_HintLeadsToReload ==
    /\ [](sub.dropOwed => sub.owed)
    /\ [][sub'.dropOwed /\ ~sub.dropOwed => hints = UpdatesCap]_vars
    /\ sub.owed ~> ~sub.owed

\* a reload has started after a hint was dropped on the full channel
C34_Witness == sub.phase = "run" /\ sub.servedDrop /\ ~sub.owed

\* GracefulShutdown has made its call of Listener.Stop
StopCalled == \E i \in 1..Len(gsLog) : gsLog[i] = "stop_listener"

\* C35: once GracefulShutdown has called Listener.Stop the listening socket
\* is not open, however Listener.Start was scheduled, and an accept loop
\* that is still running is one that will see the closed listener.
C35_NoOpenListenerAfterStop ==
    StopCalled => /\ lst # "open"
                  /\ al = "running" => lst = "closed"

\* the goroutine of the metrics server is not running
MetricsTaskEnded == ms \in {"none", "failed", "stopped"}

\* the accept loop is not running
AcceptLoopEnded == al # "running" /\ lsPc # "spawned"

\* listenUpdates has returned
SubscriptionListenerEnded == sub.lpc = "ended"

\* consumeRedisUpdates has returned
UpdateConsumerEnded == sub.cpc = "ended"

\* C36: when GracefulShutdown has returned, the metrics server goroutine,
\* the accept loop, the store's subscription listener and the
\* policy-update consumer have all terminated, and none of them has used
\* the store client after it was closed.
C36_AllTasksEndedWhenShutdownReturns ==
    /\ pc = "exit0" => /\ MetricsTaskEnded
                       /\ AcceptLoopEnded
                       /\ SubscriptionListenerEnded
                       /\ UpdateConsumerEnded
    /\ ~sub.lateLoad

\* the set of the policy engine a request is about
EngineSet(endpoint) ==
    IF endpoint = "/admin/security/waf/ips" THEN mgr.blockedIPs
    ELSE mgr.blockedPatterns

\* C37: a POST with action add or remove to a WAF endpoint of the admin
\* API is answered, with or without a config store; the handler is never
\* parked on the API's own lock; and once it has answered 200 the engine's
\* set contains what was added and nothing of what was removed.
C37_AdminWafRequestAnswered ==
    /\ [](adm.phase = "api" => adm.pc # "parked")
    /\ [](adm.phase = "api" /\ adm.pc = "responded" /\ adm.status = 200
            => IF adm.req.action = "add"
               THEN adm.req.items \subseteq EngineSet(adm.req.endpoint)
               ELSE adm.req.items \cap EngineSet(adm.req.endpoint) = {})
    /\ (adm.phase = "api" /\ adm.pc = "locked"
          /\ adm.req.action \in {"add", "remove"})
         ~> (adm.pc = "responded")

\* the gauge of no protocol is below zero
GaugeNotNegative == gauge.http >= 0 /\ gauge.tcp >= 0

\* a TCP session that Handle has not left is counted
TcpSessionCounted == cx.phase = "tcp" => gauge.tcp >= 1

\* a connection whose HTTP requests are still being served is counted
HttpExchangeCounted == cx.phase = "http" => gauge.http >= 1

\* C39: the active-connections gauge of a protocol is never negative, a
\* TCP session in progress is counted in the tcp gauge, and while an HTTP
\* connection is being served, and whenever a request is answered on it,
\* the http gauge is at least 1.
C39_GaugeCountsConnectionsBeingServed ==
    /\ [](GaugeNotNegative /\ TcpSessionCounted /\ HttpExchangeCounted)
    /\ [][cx'.reqs > cx.reqs => gauge.http >= 1]_vars

\* the bytes of a sequence, as a set
Range(s) == {s[i] : i \in 1..Len(s)}

====
